---- MODULE Spec2Model ----
(***************************************************************************)
(* Verification model of the PHPUnit retry action (ItzNotABug/php-retry).  *)
(*                                                                         *)
(* Two state machines share the module:                                    *)
(*   - the Dependency Graph Resolver (src/src/parsers/dependency.ts):      *)
(*     resolveDependencies as an explicit call stack, one step per call    *)
(*     and per return (ResolverSpec, FairResolverSpec);                    *)
(*   - the Retry Orchestrator (src/src/index.ts, class                     *)
(*     TestRetryOrchestrator): one action per synchronous block between    *)
(*     two awaits and one per child-process / timer event (Spec, FairSpec).*)
(***************************************************************************)
EXTENDS Integers, Sequences, FiniteSets, TLC

(***************************************************************************)
(* Bounds of the model.                                                    *)
(***************************************************************************)
\* longest @depends list of one test method
MaxDeps ==
  2

\* largest max_attempts input explored (the action accepts 1..10)
MaxAttempts ==
  3

\* deepest nesting of <testsuite> elements in a report
MaxDepth ==
  2

\* longest sequence of parseTestFile calls on one resolver
MaxIngests ==
  3

\* longest list of failed tests passed to buildFilterPattern directly
MaxSegments ==
  3

MaxFailed ==
  3

(***************************************************************************)
(* Test identifiers ("Class::method"), the files that declare them.        *)
(***************************************************************************)
TestOrder ==
  <<"A::t1", "A::t2", "B::t1">>

Tests ==
  {TestOrder[i] : i \in 1..Len(TestOrder)}

Files ==
  {"A.php", "B.php"}

\* the ids of K in the order of TestOrder
InOrder(K) ==
  SelectSeq(TestOrder, LAMBDA t : t \in K)

\* FailedTest.file of a test id (the `file` attribute of its testcase)
FileOf(t) ==
  IF t = "B::t1" THEN "B.php" ELSE "A.php"

Range(s) ==
  {s[i] : i \in 1..Len(s)}

\* duplicate-free sequences over S of length at most n
InjSeqs(S, n) ==
  {q \in UNION {[1..k -> S] : k \in 0..n} : Cardinality(Range(q)) = Len(q)}

(***************************************************************************)
(* DependencyResolver.dependencyMap: a JS Map<string, string[]>, kept as   *)
(* the sequence of its entries in insertion order.                         *)
(***************************************************************************)
MapKeys(map) ==
  {map[i].key : i \in 1..Len(map)}

\* this.dependencyMap.get(key) || []
MapGet(map, key) ==
  IF key \in MapKeys(map)
  THEN map[CHOOSE i \in 1..Len(map) : map[i].key = key].deps
  ELSE <<>>

\* this.dependencyMap.set(key, deps): an existing key keeps its position
MapSet(map, key, deps) ==
  IF key \in MapKeys(map)
  THEN [i \in 1..Len(map) |-> IF map[i].key = key
                              THEN [key |-> key, deps |-> deps]
                              ELSE map[i]]
  ELSE Append(map, [key |-> key, deps |-> deps])

\* Set.add on a JS Set kept as a duplicate-free sequence in insertion order
SetAdd_Push(s, x) ==
  Append(s, x)

SetAdd(s, x) ==
  IF x \in Range(s) THEN s ELSE Append(s, x)

\* xs.forEach((d) => s.add(d))
RECURSIVE AddAll(_, _)
AddAll(s, xs) ==
  IF xs = <<>> THEN s ELSE AddAll(SetAdd(s, Head(xs)), Tail(xs))

(***************************************************************************)
(* resolveDependencies as a function: the closure of methodName as a JS    *)
(* Set (duplicate-free, insertion order).  Every recursive call receives   *)
(* its own copy of the visited set (new Set(visited)).                     *)
(***************************************************************************)
RECURSIVE resolveDependencies(_, _, _)
RECURSIVE resolveLoop(_, _, _, _, _)
\* for (const dep of deps) { subDeps = resolve(dep, new Set(visited)); ... }
resolveLoop(map, deps, i, visited, result) ==
  IF i > Len(deps) THEN result
  ELSE resolveLoop(map, deps, i + 1, visited,
                   AddAll(result, resolveDependencies(map, deps[i], visited)))

resolveDependencies(map, methodName, visited) ==
  IF methodName \in visited
  THEN <<methodName>>
  ELSE resolveLoop(map, MapGet(map, methodName), 1,
                   visited \cup {methodName}, <<methodName>>)

(***************************************************************************)
(* CommandBuilder (src/unnamed/part_000).  A command string is the sequence*)
(* of its whitespace-separated tokens (command.trim().split(/\s+/)); a     *)
(* token is its text, and, for the quoted argument of --filter, the        *)
(* selector it carries.  Substring tests of the code (includes, regex) are *)
(* taken token-wise over the vocabulary below.                             *)
(***************************************************************************)
W(s) ==
  [text |-> s, sel |-> <<>>]

TextAt(tokens, i) ==
  IF i >= 1 /\ i <= Len(tokens) THEN tokens[i].text ELSE "<undefined>"

\* token.startsWith('-')
StartsWithDash(text) ==
  text \in {"-T", "-u", "--user", "-w", "--workdir", "-e", "--env",
            "--user=root", "--log-junit", "--log-junit=own.xml", "--filter"}

\* token.includes('=')
IncludesEquals(text) ==
  text \in {"--user=root", "--log-junit=own.xml", "FOO=1"}

\* token.includes('--log-junit')
IncludesLogJunit(text) ==
  text \in {"--log-junit", "--log-junit=own.xml"}

flagsWithArgs ==
  {"-u", "--user", "-w", "--workdir", "-e", "--env"}

\* command.includes('a b')
Includes2(tokens, a, b) ==
  \E i \in 1..Len(tokens) : TextAt(tokens, i) = a /\ TextAt(tokens, i + 1) = b

\* command.includes('a b c')
Includes3(tokens, a, b, c) ==
  \E i \in 1..Len(tokens) :
    TextAt(tokens, i) = a /\ TextAt(tokens, i + 1) = b /\ TextAt(tokens, i + 2) = c

isDockerCommand(command) ==
  \/ Includes2(command, "docker", "exec")
  \/ Includes3(command, "docker", "compose", "exec")
  \/ Includes2(command, "docker-compose", "exec")

isDockerCompose(command) ==
  \/ Includes3(command, "docker", "compose", "exec")
  \/ Includes2(command, "docker-compose", "exec")

\* paths of the report: the default in the workspace, the fixed
\* container-local one, and one a caller may name in the command
defaultLocalJunitPath ==
  "phpunit-junit.xml"

containerJunitPath ==
  "/tmp/phpunit-junit.xml"

Paths ==
  {defaultLocalJunitPath, containerJunitPath, "own.xml"}

\* command.match(/--log-junit\s+(\S+)/): "" stands for null (both falsy)
extractJUnitPath(command) ==
  IF \E i \in 1..(Len(command) - 1) : command[i].text = "--log-junit"
  THEN command[(CHOOSE i \in 1..(Len(command) - 1) :
                  /\ command[i].text = "--log-junit"
                  /\ \A j \in 1..(i - 1) : command[j].text # "--log-junit") + 1].text
  ELSE ""

addJUnitLogging(command, localJunitPath) ==
  IF \E i \in 1..Len(command) : IncludesLogJunit(command[i].text)
  THEN command
  ELSE command \o <<W("--log-junit"),
                    W(IF isDockerCommand(command) THEN containerJunitPath
                                                  ELSE localJunitPath)>>

\* `${command} --filter "${escaped}"`; the ids of the model hold neither a
\* backslash nor a double quote, so escaping leaves the selector as it is
addFilter(command, filterPattern) ==
  command \o <<W("--filter"), [text |-> "<selector>", sel |-> filterPattern]>>

\* `${name}=${value}` for the decimal attempt numbers 1..10
EnvAssignment(name, value) ==
  <<"PHPUNIT_RETRY_ATTEMPT=1", "PHPUNIT_RETRY_ATTEMPT=2",
    "PHPUNIT_RETRY_ATTEMPT=3", "PHPUNIT_RETRY_ATTEMPT=4",
    "PHPUNIT_RETRY_ATTEMPT=5", "PHPUNIT_RETRY_ATTEMPT=6",
    "PHPUNIT_RETRY_ATTEMPT=7", "PHPUNIT_RETRY_ATTEMPT=8",
    "PHPUNIT_RETRY_ATTEMPT=9", "PHPUNIT_RETRY_ATTEMPT=10">>[value]

\* index after the invocation keywords, 0 when the command does not start
\* with one of the three forms
KeywordsEnd(tokens) ==
  IF TextAt(tokens, 1) = "docker" /\ TextAt(tokens, 2) = "exec" THEN 3
  ELSE IF /\ TextAt(tokens, 1) = "docker"
          /\ TextAt(tokens, 2) = "compose"
          /\ TextAt(tokens, 3) = "exec" THEN 4
  ELSE IF TextAt(tokens, 1) = "docker-compose" /\ TextAt(tokens, 2) = "exec" THEN 3
  ELSE 0

\* while (idx < tokens.length && tokens[idx].startsWith('-')) idx += 1 or 2
RECURSIVE SkipFlags(_, _)
SkipFlags(tokens, idx) ==
  IF idx <= Len(tokens) /\ StartsWithDash(tokens[idx].text)
  THEN IF tokens[idx].text \in flagsWithArgs /\ ~IncludesEquals(tokens[idx].text)
       THEN SkipFlags(tokens, idx + 2)
       ELSE SkipFlags(tokens, idx + 1)
  ELSE idx

\* tokens.splice(insertIdx, 0, '-e', `${name}=${value}`): an index past the
\* end appends
Splice2(tokens, idx, a, b) ==
  LET at == IF idx > Len(tokens) + 1 THEN Len(tokens) + 1 ELSE idx
  IN SubSeq(tokens, 1, at - 1) \o <<a, b>> \o SubSeq(tokens, at, Len(tokens))

addEnvVar(command, name, value) ==
  IF ~isDockerCommand(command) THEN command
  ELSE IF KeywordsEnd(command) = 0 THEN command
  ELSE Splice2(command, SkipFlags(command, KeywordsEnd(command)),
               W("-e"), W(EnvAssignment(name, value)))

\* "" stands for null
extractContainerName(command) ==
  IF KeywordsEnd(command) = 0 THEN ""
  ELSE LET idx == SkipFlags(command, KeywordsEnd(command))
       IN IF idx <= Len(command) THEN command[idx].text ELSE ""

\* the copy command as its interpolated parts; form "none" stands for null
NoExtract ==
  [form |-> "none", container |-> "", src |-> "", dest |-> ""]

buildExtractCommand(command, destPath, customContainerPath) ==
  LET containerName == extractContainerName(command)
      containerPath == IF customContainerPath # "" THEN customContainerPath
                       ELSE containerJunitPath
  IN IF containerName = "" THEN NoExtract
     ELSE IF isDockerCompose(command)
          THEN [form |-> IF \E i \in 1..Len(command) :
                                command[i].text = "docker-compose"
                         THEN "docker-compose cp" ELSE "docker compose cp",
                container |-> containerName, src |-> containerPath,
                dest |-> destPath]
          ELSE [form |-> "docker cp", container |-> containerName,
                src |-> containerPath, dest |-> destPath]

\* the command carries a --filter flag
HasFilter(command) ==
  \E i \in 1..Len(command) : command[i].text = "--filter"

\* the selector of the --filter flag of the command
FilterOf(command) ==
  command[(CHOOSE i \in 1..Len(command) : command[i].text = "--filter") + 1].sel

\* the path the test runner writes its report to under this command
ReportTarget(command) ==
  IF extractJUnitPath(command) # "" THEN extractJUnitPath(command)
  ELSE IF \E i \in 1..Len(command) : command[i].text = "--log-junit=own.xml"
       THEN "own.xml"
       ELSE ""

(***************************************************************************)
(* buildFilterPattern: the selector as the sequence of its '|'-separated   *)
(* entries (Array.from(allTests).join("|")); "" is the empty sequence.     *)
(***************************************************************************)
\* const deps = this.resolveDependencies(key)
depsOf_KeyOnly(map, key) ==
  <<key>>

depsOf(map, key) ==
  resolveDependencies(map, key, {})

RECURSIVE collectTests(_, _, _, _)
\* for (const test of failedTests) { deps.forEach(allTests.add) }
collectTests(map, failedTests, i, allTests) ==
  IF i > Len(failedTests) THEN allTests
  ELSE collectTests(map, failedTests, i + 1,
                    AddAll(allTests, depsOf(map, failedTests[i].name)))

buildFilterPattern(map, failedTests) ==
  collectTests(map, failedTests, 1, <<>>)

(***************************************************************************)
(* parseTestFile: a source file is the sequence of its test methods with a *)
(* docblock, each with its key (`${fullClassName}::${methodName}`) and the *)
(* qualified targets of its @depends directives, in order.                 *)
(***************************************************************************)
RECURSIVE parseTestFile(_, _)
\* if (dependencies.length > 0) this.dependencyMap.set(key, dependencies)
parseTestFile(map, content) ==
  IF content = <<>> THEN map
  ELSE parseTestFile(IF Head(content).deps # <<>>
                     THEN MapSet(map, Head(content).key, Head(content).deps)
                     ELSE map,
                     Tail(content))

(***************************************************************************)
(* State.                                                                  *)
(***************************************************************************)
VARIABLES
  dependencyMap,      \* DependencyResolver.dependencyMap
  rPhase,             \* resolver call: "idle", "run", "done"
  rStart,             \* argument of the outermost resolveDependencies call
  rStack,             \* activation records of resolveDependencies
  rResult,            \* value returned by the outermost call
  inputs,             \* ActionInputs: command, maxAttempts, timeoutMinutes
  sourceFiles,        \* the PHP test files of the workspace / container
  localFs,            \* report files of the runner's filesystem, by path
  containerFs,        \* report files inside the container, by path
  pc,                 \* where TestRetryOrchestrator.run stands
  attempt,            \* run(): let attempt
  exitCode,           \* run(): let exitCode
  failedTests,        \* run(): let failedTests
  dependenciesParsed, \* run(): let dependenciesParsed
  firstAttemptStats,  \* run(): let firstAttemptStats
  attemptStats,       \* run(): let attemptStats
  testsRetried,       \* run(): let testsRetriedThisAttempt
  command,            \* run(): let command (the command executed)
  child,              \* executeTestCommand: child process, timer, closure
  extractChild,       \* extractJUnitFromDocker: the copy subprocess
  outputs,            \* summary, core.setOutput, core.setFailed
  error,              \* the rejection that left run(): "", "spawn", "timeout"
  executed,           \* history: number of test processes spawned
  lastExit,           \* history: attempt and 'exit' code of the last process
                      \*          that ended
  lastParse,          \* history: attempt, writer and failures of the last
                      \*          report parsed
  firstParse,         \* history: failures and found files of attempt 1
  waits,              \* history: number of inter-attempt waits started
  call,               \* a call of a pure method: its name, argument, result
  ingestLog,          \* history: the files passed to parseTestFile, in order
  trace               \* buildDependencyTree call: loop position, recursion
                      \* stack, search queue, lines pushed so far

rvars ==
  <<rPhase, rStart, rStack, rResult>>

runvars ==
  <<attempt, exitCode, failedTests, dependenciesParsed, firstAttemptStats,
    attemptStats, testsRetried, command>>

histvars ==
  <<executed, lastExit, lastParse, firstParse, waits>>

uvars ==
  <<call, ingestLog, trace>>

ovars ==
  <<inputs, sourceFiles, localFs, containerFs, pc, runvars, child,
    extractChild, outputs, error, histvars, uvars>>

vars ==
  <<dependencyMap, rvars, ovars>>

\* no call of a pure method made yet
NoCall ==
  [op |-> "none", arg |-> <<>>, threw |-> FALSE, result |-> <<>>]

(***************************************************************************)
(* resolveDependencies, step by step.                                      *)
(***************************************************************************)
\* deepest recursion the model follows; the code's depth is at most
\* Cardinality(Tests) + 1 (see C10), so the cap never binds
StackCap ==
  Cardinality(Tests) + 2

\* entry of resolveDependencies(methodName, visited) up to the for loop
Frame_NoVisitedCheck(map, methodName, visited) ==
  [method |-> methodName, visited |-> visited \cup {methodName},
   deps |-> MapGet(map, methodName), i |-> 1, result |-> <<methodName>>]

Frame(map, methodName, visited) ==
  IF methodName \in visited
  THEN [method |-> methodName, visited |-> visited, deps |-> <<>>,
        i |-> 1, result |-> <<methodName>>]
  ELSE [method |-> methodName, visited |-> visited \cup {methodName},
        deps |-> MapGet(map, methodName), i |-> 1, result |-> <<methodName>>]

\* subDeps.forEach((d) => result.add(d)) in the caller, then next dep
MergeReturn_DirectOnly(caller, callee) ==
  [caller EXCEPT !.result = SetAdd(caller.result, callee.method),
                 !.i = caller.i + 1]

MergeReturn(caller, callee) ==
  [caller EXCEPT !.result = AddAll(caller.result, callee.result),
                 !.i = caller.i + 1]

\* buildFilterPattern calls this.resolveDependencies(key)
ResolveCall ==
  /\ rPhase = "idle"
  /\ \E t \in Tests :
       /\ rStart' = t
       /\ rStack' = <<Frame(dependencyMap, t, {})>>
  /\ rPhase' = "run"
  /\ rResult' = <<>>
  /\ UNCHANGED <<dependencyMap, ovars>>

\* the for loop reaches a dependency: recursive call with new Set(visited)
ResolveRecurse ==
  /\ rPhase = "run"
  /\ Len(rStack) < StackCap
  /\ LET top == rStack[Len(rStack)]
     IN /\ top.i <= Len(top.deps)
        /\ rStack' = Append(rStack,
                            Frame(dependencyMap, top.deps[top.i], top.visited))
  /\ UNCHANGED <<dependencyMap, rPhase, rStart, rResult, ovars>>

\* return result: the loop of the top activation is over
ResolveReturn ==
  /\ rPhase = "run"
  /\ LET n == Len(rStack)
         top == rStack[n]
     IN /\ top.i > Len(top.deps)
        /\ IF n = 1
           THEN /\ rResult' = top.result
                /\ rStack' = <<>>
                /\ rPhase' = "done"
           ELSE /\ rStack' = [SubSeq(rStack, 1, n - 1) EXCEPT
                                ![n - 1] = MergeReturn(rStack[n - 1], top)]
                /\ UNCHANGED <<rResult, rPhase>>
  /\ UNCHANGED <<dependencyMap, rStart, ovars>>

\* the caller consumed the result; the resolver is ready for another call
ResolveDone ==
  /\ rPhase = "done"
  /\ rPhase' = "idle"
  /\ UNCHANGED <<dependencyMap, rStart, rStack, rResult, ovars>>

(***************************************************************************)
(* buildDependencyTree, step by step.  A line of the rendered text is its  *)
(* indentation ("  ".repeat(indent)), whether it carries the connector,    *)
(* the test it names and whether it ends in " (FAILED)".                   *)
(***************************************************************************)
\* FailedTest records of a list of ids
FailedOf(names) ==
  [i \in 1..Len(names) |-> [name |-> names[i], file |-> FileOf(names[i])]]

\* everything a buildDependencyTree call leaves alone
untraced ==
  <<dependencyMap, rvars, inputs, sourceFiles, localFs, containerFs, pc,
    runvars, child, extractChild, outputs, error, histvars, call, ingestLog>>

\* no buildDependencyTree call made yet; `selector` is history: the selector
\* of the failed tests as buildFilterPattern gave it when the call began
NoTrace ==
  [phase |-> "idle", failed |-> <<>>, i |-> 1, stack |-> <<>>,
   queue |-> <<>>, visited |-> {}, root |-> "", lines |-> <<>>,
   selector |-> <<>>]

\* the lines pushed for one failed test, given its chain
renderChain(chain, name) ==
  IF Len(chain) > 1
  THEN [k \in 1..Len(chain) |->
          [indent |-> k - 1, connector |-> k # 1, name |-> chain[k],
           failed |-> k = Len(chain)]]
  ELSE <<[indent |-> 1, connector |-> FALSE, name |-> name, failed |-> TRUE]>>

\* buildDependencyChain returned `chain` for failedTests[i]: its lines are
\* pushed and the loop moves on
pushChain(tr, chain) ==
  [tr EXCEPT !.lines = @ \o renderChain(chain, tr.failed[tr.i]),
             !.i = @ + 1, !.phase = "loop", !.stack = <<>>, !.queue = <<>>,
             !.visited = {}, !.root = ""]

\* entry of findRootDependencies(methodName, visited) up to the for loop
RootFrame_NoVisitedCheck(map, methodName, visited) ==
  IF MapGet(map, methodName) = <<>>
  THEN [method |-> methodName, visited |-> visited \cup {methodName},
        deps |-> <<>>, i |-> 1, roots |-> <<methodName>>]
  ELSE [method |-> methodName, visited |-> visited \cup {methodName},
        deps |-> MapGet(map, methodName), i |-> 1, roots |-> <<>>]

RootFrame(map, methodName, visited) ==
  IF methodName \in visited
  THEN [method |-> methodName, visited |-> visited, deps |-> <<>>,
        i |-> 1, roots |-> <<>>]
  ELSE IF MapGet(map, methodName) = <<>>
  THEN [method |-> methodName, visited |-> visited \cup {methodName},
        deps |-> <<>>, i |-> 1, roots |-> <<methodName>>]
  ELSE [method |-> methodName, visited |-> visited \cup {methodName},
        deps |-> MapGet(map, methodName), i |-> 1, roots |-> <<>>]

\* subRoots.forEach((r) => roots.add(r)) in the caller, then next dep
MergeRoots(caller, callee) ==
  [caller EXCEPT !.roots = AddAll(@, callee.roots), !.i = @ + 1]

\* deps.includes(current)
dependsOn_Any(deps, current) ==
  deps # <<>>

dependsOn(deps, current) ==
  current \in Range(deps)

\* buildChainFromRoot: the for loop over the entries of the map, from entry
\* k on, for one dequeued element; it returns the path once it meets
\* target, else the elements it pushed
RECURSIVE scanEntries(_, _, _, _, _, _)
scanEntries(map, k, current, path, target, pushed) ==
  IF k > Len(map)
  THEN [found |-> FALSE, path |-> <<>>, pushed |-> pushed]
  ELSE IF dependsOn(map[k].deps, current)
  THEN IF map[k].key = target
       THEN [found |-> TRUE, path |-> Append(path, map[k].key),
             pushed |-> pushed]
       ELSE scanEntries(map, k + 1, current, path, target,
                        Append(pushed, [current |-> map[k].key,
                                        path |-> Append(path, map[k].key)]))
  ELSE scanEntries(map, k + 1, current, path, target, pushed)

\* failed-test lists: none, one test, the first and the last test
TraceLists ==
  {<<>>} \cup {<<t>> : t \in Tests}
         \cup {<<TestOrder[1], TestOrder[Len(TestOrder)]>>}

\* run() calls this.resolver.buildDependencyTree(failedTests)
TraceCall ==
  /\ trace.phase = "idle"
  /\ \E F \in TraceLists :
       trace' = [NoTrace EXCEPT !.phase = "loop", !.failed = F,
                                !.selector = buildFilterPattern(dependencyMap,
                                                                FailedOf(F))]
  /\ UNCHANGED untraced

\* for (const test of failedTests): buildDependencyChain(test.name) up to
\* the call of findRootDependencies
TraceChain ==
  /\ trace.phase = "loop"
  /\ trace.i <= Len(trace.failed)
  /\ LET methodName == trace.failed[trace.i]
     IN IF MapGet(dependencyMap, methodName) # <<>>
        THEN trace' = [trace EXCEPT
                         !.phase = "roots",
                         !.stack = <<RootFrame(dependencyMap, methodName, {})>>]
        ELSE trace' = pushChain(trace, <<methodName>>)
  /\ UNCHANGED untraced

\* the loop over failedTests is over: return lines.join("\n")
TraceReturn ==
  /\ trace.phase = "loop"
  /\ trace.i > Len(trace.failed)
  /\ trace' = [trace EXCEPT !.phase = "done"]
  /\ UNCHANGED untraced

\* findRootDependencies reaches a dependency: recursive call with
\* new Set(visited)
RootsRecurse ==
  /\ trace.phase = "roots"
  /\ Len(trace.stack) < StackCap
  /\ LET top == trace.stack[Len(trace.stack)]
     IN /\ top.i <= Len(top.deps)
        /\ trace' = [trace EXCEPT
                       !.stack = Append(@, RootFrame(dependencyMap,
                                                     top.deps[top.i],
                                                     top.visited))]
  /\ UNCHANGED untraced

\* return roots; the outermost return goes on in buildDependencyChain: the
\* search starts from the first root, or the chain is the test alone
RootsReturn ==
  /\ trace.phase = "roots"
  /\ LET n == Len(trace.stack)
         top == trace.stack[n]
         methodName == trace.failed[trace.i]
     IN /\ top.i > Len(top.deps)
        /\ IF n > 1
           THEN trace' = [trace EXCEPT
                            !.stack = [SubSeq(@, 1, n - 1) EXCEPT
                                         ![n - 1] = MergeRoots(@, top)]]
           ELSE IF top.roots = <<>>
           THEN trace' = pushChain(trace, <<methodName>>)
           ELSE IF top.roots[1] = methodName
           THEN trace' = pushChain(trace, <<top.roots[1]>>)
           ELSE trace' = [trace EXCEPT
                            !.phase = "search", !.stack = <<>>,
                            !.root = top.roots[1],
                            !.queue = <<[current |-> top.roots[1],
                                         path |-> <<top.roots[1]>>]>>,
                            !.visited = {}]
  /\ UNCHANGED untraced

\* buildChainFromRoot: one turn of the while loop
SearchStep ==
  /\ trace.phase = "search"
  /\ IF trace.queue = <<>>
     THEN trace' = pushChain(trace, <<trace.root>>)
     ELSE LET head == Head(trace.queue)
              scan == scanEntries(dependencyMap, 1, head.current, head.path,
                                  trace.failed[trace.i], <<>>)
          IN IF head.current \in trace.visited
             THEN trace' = [trace EXCEPT !.queue = Tail(@)]
             ELSE IF scan.found
             THEN trace' = pushChain(trace, scan.path)
             ELSE trace' = [trace EXCEPT
                              !.queue = Tail(@) \o scan.pushed,
                              !.visited = @ \cup {head.current}]
  /\ UNCHANGED untraced

\* the caller logged the tree; the resolver is ready for another call
TraceDone ==
  /\ trace.phase = "done"
  /\ trace' = [trace EXCEPT !.phase = "idle"]
  /\ UNCHANGED untraced

(***************************************************************************)
(* Retry Orchestrator: data.                                               *)
(***************************************************************************)
\* the code passed to 'exit' when the process was ended by a signal (null)
NoCode ==
  -1

\* exit codes of a process that exits by itself
ExitCodes ==
  {0, 1, 2}

NoFile ==
  [exists |-> FALSE, by |-> 0, failed |-> <<>>, total |-> 0]

\* a report of an earlier run (written by attempt 0)
StaleReport ==
  [exists |-> TRUE, by |-> 0, failed |-> <<"A::t1">>, total |-> Len(TestOrder)]

\* failure lists a report can hold, in document order: none, one test of
\* either file, tests of both files
FailLists ==
  {<<>>, <<"A::t2">>, <<"B::t1">>, <<"A::t1", "B::t1">>}

\* JUnitParser.parseXMLFile on a report: one FailedTest per failing testcase
parseXMLFile(report) ==
  [i \in 1..Len(report.failed) |->
     [name |-> report.failed[i], file |-> FileOf(report.failed[i])]]

\* failedTests.map((t) => t.name)
Names(tests) ==
  [i \in 1..Len(tests) |-> tests[i].name]

\* the commands the caller may configure
Commands ==
  {<<W("phpunit")>>,
   <<W("phpunit"), W("--log-junit"), W("own.xml")>>,
   <<W("docker"), W("exec"), W("app"), W("phpunit")>>,
   <<W("FOO=1"), W("docker"), W("exec"), W("app"), W("phpunit")>>}

\* source trees: a chain across two files, and a two-cycle in one file
SourceTrees ==
  {[f \in Files |->
      IF f = "A.php" THEN <<[key |-> "A::t2", deps |-> <<"A::t1">>]>>
                     ELSE <<[key |-> "B::t1", deps |-> <<"A::t2">>]>>],
   [f \in Files |->
      IF f = "A.php" THEN <<[key |-> "A::t1", deps |-> <<"A::t2">>],
                            [key |-> "A::t2", deps |-> <<"A::t1">>]>>
                     ELSE <<>>]}

NoChild ==
  [state |-> "none", pid |-> FALSE, timer |-> "none", timedOut |-> FALSE,
   exitCode |-> NoCode, fired |-> "never", kill |-> "none"]

\* no copy subprocess (the child object of a settled promise is garbage)
NoExtractChild ==
  [state |-> "none", cmd |-> NoExtract, code |-> NoCode]

NoOutputs ==
  [set |-> FALSE, summary |-> FALSE, total_attempts |-> 0, exit_code |-> 0,
   failed_tests |-> <<>>, success |-> FALSE, setFailed |-> FALSE]

\* run(): existingJunitPath and localJunitPath
existingJunitPath ==
  extractJUnitPath(inputs.command)

localJunitPath ==
  IF existingJunitPath # "" THEN existingJunitPath ELSE defaultLocalJunitPath

(***************************************************************************)
(* parseDependenciesFromFailedTests: `found` is the set of files for which *)
(* the workspace lookup, or the copy out of the container, gave a path.    *)
(***************************************************************************)
RECURSIVE parseDepsLoop(_, _, _, _, _)
parseDepsLoop(tests, i, found, parsedFiles, map) ==
  IF i > Len(tests) THEN [parsedFiles |-> parsedFiles, map |-> map]
  ELSE IF tests[i].file \in parsedFiles
       THEN parseDepsLoop(tests, i + 1, found, parsedFiles, map)
       ELSE IF tests[i].file \in found
            THEN parseDepsLoop(tests, i + 1, found,
                               parsedFiles \cup {tests[i].file},
                               parseTestFile(map, sourceFiles[tests[i].file]))
            ELSE parseDepsLoop(tests, i + 1, found, parsedFiles, map)

\* const dependenciesParsed = parsedFiles.size === uniqueFiles.size
AllParsed_AnyFound(parsedFiles, uniqueFiles) ==
  Cardinality(parsedFiles) > 0

AllParsed(parsedFiles, uniqueFiles) ==
  Cardinality(parsedFiles) = Cardinality(uniqueFiles)

\* files found: in the workspace, or, for a containerized command whose
\* container name is known, copied out of the container
Found(cmd, inWorkspace, inContainer) ==
  inWorkspace \cup
    (IF isDockerCommand(cmd) /\ extractContainerName(cmd) # ""
     THEN inContainer ELSE {})

parseDependenciesFromFailedTests(tests, cmd, inWorkspace, inContainer) ==
  LET r == parseDepsLoop(tests, 1, Found(cmd, inWorkspace, inContainer),
                         {}, dependencyMap)
  IN [parsed |-> AllParsed(r.parsedFiles,
                           {tests[i].file : i \in 1..Len(tests)}),
      map |-> r.map]

(***************************************************************************)
(* run(): building and starting an attempt (lines 868-931).                *)
(***************************************************************************)
\* attempt 1 and the fallback run the full suite; otherwise --filter
UseFilter_Always(k) ==
  k # 1

UseFilter(k) ==
  k # 1 /\ dependenciesParsed

BuildCommand(k) ==
  addEnvVar(
    IF UseFilter(k)
    THEN addJUnitLogging(
           addFilter(inputs.command,
                     buildFilterPattern(dependencyMap, failedTests)),
           defaultLocalJunitPath)
    ELSE addJUnitLogging(inputs.command, defaultLocalJunitPath),
    "PHPUNIT_RETRY_ATTEMPT", k)

\* filterPattern.split('|').length: the empty string splits into one piece
splitLength(filterPattern) ==
  IF filterPattern = <<>> THEN 1 ELSE Len(filterPattern)

\* const testsToRun = filterPattern ? filterPattern.split('|').length : 0
testsToRun_NoGuard(filterPattern) ==
  splitLength(filterPattern)

testsToRun(filterPattern) ==
  IF filterPattern # <<>> THEN splitLength(filterPattern) ELSE 0

\* testsRetriedThisAttempt of attempt k
TestsRetried(k) ==
  IF k = 1 THEN 0
  ELSE IF ~dependenciesParsed
       THEN (IF firstAttemptStats.set THEN firstAttemptStats.total ELSE 0)
       ELSE testsToRun(buildFilterPattern(dependencyMap, failedTests))

\* if (!existingJunitPath && fs.existsSync(localJunitPath)) unlinkSync(...)
unlinkStale_Always(files) ==
  [files EXCEPT ![localJunitPath] = NoFile]

unlinkStale(files) ==
  IF existingJunitPath = "" /\ files[localJunitPath].exists
  THEN [files EXCEPT ![localJunitPath] = NoFile]
  ELSE files

\* the loop body up to `await this.executeTestCommand(...)`: delete the
\* stale report, build the command, spawn the child, arm the timer
BeginAttempt(k) ==
  /\ attempt' = k
  /\ localFs' = unlinkStale(localFs)
  /\ command' = BuildCommand(k)
  /\ testsRetried' = TestsRetried(k)
  /\ \E spawned \in BOOLEAN :
       child' = [state |-> IF spawned THEN "running" ELSE "spawnfail",
                 pid |-> spawned,
                 timer |-> IF inputs.timeoutMinutes > 0 THEN "armed" ELSE "none",
                 timedOut |-> FALSE, exitCode |-> NoCode,
                 fired |-> "never", kill |-> "none"]
  /\ executed' = executed + 1
  /\ pc' = "exec"
  /\ UNCHANGED <<dependencyMap, rvars, uvars, inputs, sourceFiles, containerFs,
                 exitCode, failedTests, dependenciesParsed, firstAttemptStats,
                 attemptStats, extractChild, outputs, error, lastExit,
                 lastParse, firstParse, waits>>

\* run() is called: attempt 1
StartRun ==
  /\ pc = "idle"
  /\ BeginAttempt(1)

(***************************************************************************)
(* executeTestCommand: the events of the child process and of the timer.   *)
(***************************************************************************)
\* child.on('error'): the shell could not be spawned
ChildError_Resolves ==
  /\ pc = "exec"
  /\ child.state = "spawnfail"
  /\ child' = [child EXCEPT !.state = "closed",
                            !.timer = IF child.timer = "armed" THEN "cleared"
                                      ELSE child.timer]
  /\ exitCode' = 1
  /\ pc' = "resolved"
  /\ UNCHANGED <<dependencyMap, rvars, uvars, inputs, sourceFiles, localFs,
                 containerFs, attempt, failedTests, dependenciesParsed,
                 firstAttemptStats, attemptStats, testsRetried, command,
                 extractChild, outputs, error, histvars>>

ChildError ==
  /\ pc = "exec"
  /\ child.state = "spawnfail"
  /\ child' = [child EXCEPT !.state = "closed",
                            !.timer = IF child.timer = "armed" THEN "cleared"
                                      ELSE child.timer]
  /\ error' = "spawn"
  /\ pc' = "aborted"
  /\ UNCHANGED <<dependencyMap, rvars, uvars, inputs, sourceFiles, localFs,
                 containerFs, runvars, extractChild, outputs, histvars>>

\* handleTimeout: the timer fires; it stays armed until 'close' clears it
TimerFire ==
  /\ pc = "exec"
  /\ child.timer = "armed"
  /\ child.state \in {"running", "exited"}
  /\ child' = [child EXCEPT !.timer = "fired",
                            !.timedOut = TRUE,
                            !.fired = child.state,
                            !.kill = IF child.pid THEN child.state ELSE "none"]
  /\ UNCHANGED <<dependencyMap, rvars, uvars, inputs, sourceFiles, localFs,
                 containerFs, pc, runvars, extractChild, outputs, error,
                 histvars>>

\* what the test runner leaves at its report path before it ends
WrittenReports(code) ==
  {NoFile} \cup
  {[exists |-> TRUE, by |-> attempt, failed |-> F, total |-> Len(TestOrder)] :
     F \in IF code = 0 THEN {<<>>} ELSE FailLists}

\* exitCode = code || 0
CodeOrZero(code) ==
  IF code = NoCode THEN 0 ELSE code

\* child.on('exit'): the process ended, by itself or by a signal
ChildExit_Resolves ==
  /\ pc = "exec"
  /\ child.state = "running"
  /\ \E code \in ExitCodes \cup {NoCode} :
       /\ child' = [child EXCEPT !.state = "exited",
                                 !.exitCode = CodeOrZero(code)]
       /\ lastExit' = [attempt |-> attempt, code |-> code]
       /\ \E report \in WrittenReports(code) :
            LET path == ReportTarget(command)
            IN IF report.exists /\ path # ""
               THEN IF isDockerCommand(command)
                    THEN /\ containerFs' = [containerFs EXCEPT ![path] = report]
                         /\ UNCHANGED localFs
                    ELSE /\ localFs' = [localFs EXCEPT ![path] = report]
                         /\ UNCHANGED containerFs
               ELSE UNCHANGED <<localFs, containerFs>>
  /\ exitCode' = 1
  /\ pc' = "resolved"
  /\ UNCHANGED <<dependencyMap, rvars, uvars, inputs, sourceFiles, attempt,
                 failedTests, dependenciesParsed, firstAttemptStats,
                 attemptStats, testsRetried, command, extractChild, outputs,
                 error, executed, lastParse, firstParse, waits>>

ChildExit ==
  /\ pc = "exec"
  /\ child.state = "running"
  /\ \E code \in ExitCodes \cup {NoCode} :
       /\ child' = [child EXCEPT !.state = "exited",
                                 !.exitCode = CodeOrZero(code)]
       /\ lastExit' = [attempt |-> attempt, code |-> code]
       /\ \E report \in WrittenReports(code) :
            LET path == ReportTarget(command)
            IN IF report.exists /\ path # ""
               THEN IF isDockerCommand(command)
                    THEN /\ containerFs' = [containerFs EXCEPT ![path] = report]
                         /\ UNCHANGED localFs
                    ELSE /\ localFs' = [localFs EXCEPT ![path] = report]
                         /\ UNCHANGED containerFs
               ELSE UNCHANGED <<localFs, containerFs>>
  /\ UNCHANGED <<dependencyMap, rvars, uvars, inputs, sourceFiles, pc, runvars,
                 extractChild, outputs, error, executed, lastParse, firstParse,
                 waits>>

\* if (timedOut) reject(...) else resolve(...)
TimedOut_Ignored(c) ==
  FALSE

TimedOut(c) ==
  c.timedOut

\* child.on('close'): clear the timer, then reject or resolve
ChildClose_EmitsOutputs ==
  /\ pc = "exec"
  /\ child.state = "exited"
  /\ child' = [child EXCEPT !.state = "closed",
                            !.timer = IF child.timer = "armed" THEN "cleared"
                                      ELSE child.timer]
  /\ IF TimedOut(child)
     THEN /\ error' = "timeout"
          /\ pc' = "aborted"
          /\ outputs' = [NoOutputs EXCEPT !.set = TRUE, !.summary = TRUE,
                                          !.total_attempts = attempt]
          /\ UNCHANGED exitCode
     ELSE /\ exitCode' = CodeOrZero(child.exitCode)
          /\ pc' = "resolved"
          /\ UNCHANGED <<error, outputs>>
  /\ UNCHANGED <<dependencyMap, rvars, uvars, inputs, sourceFiles, localFs,
                 containerFs, attempt, failedTests, dependenciesParsed,
                 firstAttemptStats, attemptStats, testsRetried, command,
                 extractChild, histvars>>

ChildClose ==
  /\ pc = "exec"
  /\ child.state = "exited"
  /\ child' = [child EXCEPT !.state = "closed",
                            !.timer = IF child.timer = "armed" THEN "cleared"
                                      ELSE child.timer]
  /\ IF TimedOut(child)
     THEN /\ error' = "timeout"
          /\ pc' = "aborted"
          /\ UNCHANGED exitCode
     ELSE /\ exitCode' = CodeOrZero(child.exitCode)
          /\ pc' = "resolved"
          /\ UNCHANGED error
  /\ UNCHANGED <<dependencyMap, rvars, uvars, inputs, sourceFiles, localFs,
                 containerFs, attempt, failedTests, dependenciesParsed,
                 firstAttemptStats, attemptStats, testsRetried, command,
                 extractChild, outputs, histvars>>

(***************************************************************************)
(* run(): from the exit-code check to the break or the wait (951-998), and *)
(* the summary and outputs after the loop (1008-1020).                     *)
(***************************************************************************)
\* displayTestSummary, core.setOutput x 4, core.setFailed
FinalOutputs(n, code, tests) ==
  [set |-> TRUE, summary |-> TRUE, total_attempts |-> n, exit_code |-> code,
   failed_tests |-> Names(tests), success |-> (code = 0),
   setFailed |-> (code # 0)]

\* if (attempt >= this.inputs.maxAttempts) break
NoAttemptLeft_OffByOne(k) ==
  k > inputs.maxAttempts

NoAttemptLeft(k) ==
  k >= inputs.maxAttempts

\* if (attempt === 1) dependenciesParsed = this.parseDependencies...(...)
FirstAttempt_Any(k) ==
  TRUE

FirstAttempt(k) ==
  k = 1

HandleResult ==
  LET report == localFs[localJunitPath]
      passed == exitCode = 0
      missing == ~passed /\ ~report.exists
      parsed == ~passed /\ report.exists
      tests == IF passed THEN <<>>
               ELSE IF missing THEN failedTests
               ELSE parseXMLFile(report)
      ingest == parsed /\ Len(tests) # 0 /\ FirstAttempt(attempt)
      uniqueFiles == {tests[i].file : i \in 1..Len(tests)}
      stop == passed \/ missing \/ Len(tests) = 0 \/ NoAttemptLeft(attempt)
  IN /\ failedTests' = tests
     /\ firstAttemptStats' = IF parsed /\ attempt = 1
                             THEN [set |-> TRUE, total |-> report.total]
                             ELSE firstAttemptStats
     /\ attemptStats' = IF passed \/ parsed
                        THEN Append(attemptStats,
                                    [attempt |-> attempt, failed |-> Len(tests),
                                     retried |-> testsRetried])
                        ELSE attemptStats
     /\ lastParse' = IF parsed
                     THEN [attempt |-> attempt, by |-> report.by,
                           failed |-> report.failed]
                     ELSE lastParse
     /\ IF ingest
        THEN \E inWorkspace \in SUBSET uniqueFiles :
             \E inContainer \in
                  IF isDockerCommand(command) /\ extractContainerName(command) # ""
                  THEN SUBSET (uniqueFiles \ inWorkspace) ELSE {{}} :
               LET r == parseDependenciesFromFailedTests(
                          tests, command, inWorkspace, inContainer)
               IN /\ dependenciesParsed' = r.parsed
                  /\ dependencyMap' = r.map
                  /\ firstParse' =
                       [done |-> TRUE, failed |-> report.failed,
                        found |-> Found(command, inWorkspace, inContainer)]
        ELSE UNCHANGED <<dependenciesParsed, dependencyMap, firstParse>>
     /\ IF stop
        THEN /\ outputs' = FinalOutputs(attempt, exitCode, tests)
             /\ pc' = "finished"
             /\ UNCHANGED waits
        ELSE /\ pc' = "waiting"
             /\ waits' = waits + 1
             /\ UNCHANGED outputs
     /\ child' = NoChild
     /\ extractChild' = NoExtractChild
     /\ UNCHANGED <<rvars, uvars, inputs, sourceFiles, localFs, containerFs,
                    attempt,
                    exitCode, testsRetried, command, error, executed,
                    lastExit>>

\* the continuation of `await this.executeTestCommand(...)`: a containerized
\* command first copies the report out; any other goes on to the exit check
AfterExecute ==
  /\ pc = "resolved"
  /\ LET extractCmd == buildExtractCommand(command, localJunitPath,
                                           existingJunitPath)
     IN IF isDockerCommand(command) /\ extractCmd.form # "none"
        THEN /\ \E spawned \in BOOLEAN :
                  extractChild' = [state |-> IF spawned THEN "running"
                                                        ELSE "spawnfail",
                                   cmd |-> extractCmd, code |-> NoCode]
             /\ pc' = "extract"
             /\ UNCHANGED <<dependencyMap, rvars, uvars, inputs, sourceFiles, localFs,
                            containerFs, runvars, child, outputs, error,
                            histvars>>
        ELSE HandleResult

\* extractChild.on('error'): resolve()
ExtractError_Rejects ==
  /\ pc = "extract"
  /\ extractChild.state = "spawnfail"
  /\ extractChild' = [extractChild EXCEPT !.state = "failed"]
  /\ pc' = "aborted"
  /\ error' = "extract"
  /\ UNCHANGED <<dependencyMap, rvars, uvars, inputs, sourceFiles, localFs,
                 containerFs, runvars, child, outputs, histvars>>

ExtractError ==
  /\ pc = "extract"
  /\ extractChild.state = "spawnfail"
  /\ extractChild' = [extractChild EXCEPT !.state = "failed"]
  /\ pc' = "extracted"
  /\ UNCHANGED <<dependencyMap, rvars, uvars, inputs, sourceFiles, localFs,
                 containerFs, runvars, child, outputs, error, histvars>>

\* extractChild.on('exit'): the copy ended; it copied the file when it
\* exited with 0, which it can only do when the source exists
ExtractExit ==
  /\ pc = "extract"
  /\ extractChild.state = "running"
  /\ \E code \in {0, 1, NoCode} :
       /\ code = 0 => containerFs[extractChild.cmd.src].exists
       /\ extractChild' = [extractChild EXCEPT !.state = "exited", !.code = code]
       /\ localFs' = IF code = 0
                     THEN [localFs EXCEPT ![extractChild.cmd.dest] =
                                            containerFs[extractChild.cmd.src]]
                     ELSE localFs
  /\ UNCHANGED <<dependencyMap, rvars, uvars, inputs, sourceFiles, containerFs, pc,
                 runvars, child, outputs, error, histvars>>

\* extractChild.on('close'): resolve()
ExtractClose ==
  /\ pc = "extract"
  /\ extractChild.state = "exited"
  /\ extractChild' = [extractChild EXCEPT !.state = "closed"]
  /\ pc' = "extracted"
  /\ UNCHANGED <<dependencyMap, rvars, uvars, inputs, sourceFiles, localFs,
                 containerFs, runvars, child, outputs, error, histvars>>

\* the continuation of `await this.extractJUnitFromDocker(...)`
AfterExtract ==
  /\ pc = "extracted"
  /\ HandleResult

\* the wait is over: attempt++, then the loop condition
WaitDone ==
  /\ pc = "waiting"
  /\ IF attempt + 1 <= inputs.maxAttempts
     THEN BeginAttempt(attempt + 1)
     ELSE /\ attempt' = attempt + 1
          /\ outputs' = FinalOutputs(attempt + 1, exitCode, failedTests)
          /\ pc' = "finished"
          /\ UNCHANGED <<dependencyMap, rvars, uvars, inputs, sourceFiles, localFs,
                         containerFs, exitCode, failedTests,
                         dependenciesParsed, firstAttemptStats, attemptStats,
                         testsRetried, command, child, extractChild, error,
                         histvars>>

(***************************************************************************)
(* Specifications.                                                         *)
(***************************************************************************)
ResolverIdle ==
  /\ rPhase = "idle"
  /\ rStart = TestOrder[1]
  /\ rStack = <<>>
  /\ rResult = <<>>
  /\ call = NoCall
  /\ ingestLog = <<>>
  /\ trace = NoTrace

\* run() before its first statement
RunIdle ==
  /\ pc = "idle"
  /\ attempt = 1
  /\ exitCode = 0
  /\ failedTests = <<>>
  /\ dependenciesParsed = FALSE
  /\ firstAttemptStats = [set |-> FALSE, total |-> 0]
  /\ attemptStats = <<>>
  /\ testsRetried = 0
  /\ command = <<>>
  /\ child = NoChild
  /\ extractChild = NoExtractChild
  /\ outputs = NoOutputs
  /\ error = ""
  /\ executed = 0
  /\ lastExit = [attempt |-> 0, code |-> NoCode]
  /\ lastParse = [attempt |-> 0, by |-> 0, failed |-> <<>>]
  /\ firstParse = [done |-> FALSE, failed |-> <<>>, found |-> {}]
  /\ waits = 0

Init ==
  /\ inputs \in [command : Commands, maxAttempts : 1..MaxAttempts,
                 timeoutMinutes : {0, 1}]
  /\ sourceFiles \in SourceTrees
  /\ \E stale \in BOOLEAN :
       /\ localFs = [p \in Paths |->
                       IF stale /\ p # containerJunitPath THEN StaleReport
                       ELSE NoFile]
       /\ containerFs = [p \in Paths |->
                           IF stale /\ p # defaultLocalJunitPath THEN StaleReport
                           ELSE NoFile]
  /\ dependencyMap = <<>>
  /\ ResolverIdle
  /\ RunIdle

Next ==
  \/ StartRun
  \/ ChildError
  \/ TimerFire
  \/ ChildExit
  \/ ChildClose
  \/ AfterExecute
  \/ ExtractError
  \/ ExtractExit
  \/ ExtractClose
  \/ AfterExtract
  \/ WaitDone

Spec ==
  Init /\ [][Next]_vars

\* the event loop runs every ready callback and continuation; a process the
\* timeout signalled ends, and an ended process closes its streams
FairSpec ==
  /\ Spec
  /\ WF_vars(ChildExit /\ child.kill = "running")
  /\ WF_vars(ChildClose)
  /\ WF_vars(ChildError)

\* non-empty @depends lists parseTestFile can record for one method
DepLists ==
  InjSeqs(Tests, MaxDeps) \ {<<>>}

\* dependency maps parseTestFile can build over Tests (keys inserted in the
\* order of TestOrder: the closure does not depend on the insertion order)
AllMaps ==
  UNION {{[i \in 1..Len(InOrder(K)) |-> [key |-> InOrder(K)[i], deps |-> d[i]]] :
             d \in [1..Len(InOrder(K)) -> DepLists]} :
         K \in SUBSET Tests}

ResolverInit ==
  /\ dependencyMap \in AllMaps
  /\ ResolverIdle
  /\ inputs = [command |-> <<W("phpunit")>>, maxAttempts |-> 1,
               timeoutMinutes |-> 0]
  /\ sourceFiles = [f \in Files |-> <<>>]
  /\ localFs = [p \in Paths |-> NoFile]
  /\ containerFs = [p \in Paths |-> NoFile]
  /\ RunIdle

ResolverNext ==
  \/ ResolveCall
  \/ ResolveRecurse
  \/ ResolveReturn
  \/ ResolveDone

ResolverSpec ==
  ResolverInit /\ [][ResolverNext]_vars

\* a call, once made, runs to completion (synchronous code)
FairResolverSpec ==
  ResolverSpec /\ WF_vars(ResolveRecurse) /\ WF_vars(ResolveReturn)

\* buildDependencyTree, from its call to its return
TraceNext ==
  \/ TraceCall
  \/ TraceChain
  \/ TraceReturn
  \/ RootsRecurse
  \/ RootsReturn
  \/ SearchStep
  \/ TraceDone

TraceSpec ==
  ResolverInit /\ [][TraceNext]_vars

\* the statements of a call in progress
TraceStep ==
  \/ TraceChain
  \/ TraceReturn
  \/ RootsRecurse
  \/ RootsReturn
  \/ SearchStep

\* a call, once made, runs on as long as it has a next statement
\* (synchronous code)
FairTraceSpec ==
  TraceSpec /\ WF_vars(TraceStep)

(***************************************************************************)
(* Closure: ids reachable by zero or more depends-on edges (least fixpoint)*)
(***************************************************************************)
RECURSIVE ReachFrom(_, _)
ReachFrom(map, S) ==
  LET N == S \cup UNION {Range(MapGet(map, s)) : s \in S}
  IN IF N = S THEN S ELSE ReachFrom(map, N)

Reach(map, t) ==
  ReachFrom(map, {t})

\* the step machine and the function compute the same Set
ResolverAgree ==
  rPhase = "done" => rResult = resolveDependencies(dependencyMap, rStart, {})

\* C9: when a call returns, its result is exactly the set of ids reachable
\* from the start id by zero or more depends-on edges (start included),
\* each once; so for the cycle t1 -> t2 -> t1 it is exactly {t1, t2}.
C9_ClosureExact ==
  rPhase = "done" =>
    /\ Range(rResult) = Reach(dependencyMap, rStart)
    /\ Len(rResult) = Cardinality(Range(rResult))
    /\ rStart \in Range(rResult)

\* a call on the two-cycle A::t1 -> A::t2 -> A::t1 has returned {A::t1, A::t2}
C9_Witness ==
  /\ rPhase = "done"
  /\ rStart = "A::t1"
  /\ MapGet(dependencyMap, "A::t1") = <<"A::t2">>
  /\ MapGet(dependencyMap, "A::t2") = <<"A::t1">>
  /\ Range(rResult) = {"A::t1", "A::t2"}

\* C10: every call of resolveDependencies returns, on every map (self-loops
\* and cycles included): the recursion is never deeper than the number of
\* ids plus one, the visited sets of the activations grow strictly down the
\* stack, nothing of the call is left behind, and the map is not written.
C10_Terminates ==
  /\ [](Len(rStack) <= Cardinality(Tests) + 1)
  /\ [](\A j \in 1..(Len(rStack) - 1) :
          /\ rStack[j].visited \subseteq rStack[j + 1].visited
          /\ rStack[j].method \in rStack[j].visited)
  /\ [](rPhase # "run" => rStack = <<>>)
  /\ [][dependencyMap' = dependencyMap]_vars
  /\ ((rPhase = "run") ~> (rPhase = "done"))

\* a call on a map with a self-loop and a three-cycle has returned
C10_Witness ==
  /\ rPhase = "done"
  /\ \E t \in Tests : t \in Range(MapGet(dependencyMap, t))
  /\ Cardinality(Reach(dependencyMap, rStart)) = Cardinality(Tests)
  /\ \A t \in Tests : rStart \in Reach(dependencyMap, t)

(***************************************************************************)
(* Properties of buildDependencyTree.                                      *)
(***************************************************************************)
\* a test without outgoing depends-on edges is reachable from t
HasRoot(t) ==
  \E r \in Reach(dependencyMap, t) : MapGet(dependencyMap, r) = <<>>

\* the lines of one failed test t, as the trace should show them
GoodBlock(block, t) ==
  IF MapGet(dependencyMap, t) = <<>>
  THEN block = <<[indent |-> 1, connector |-> FALSE, name |-> t,
                  failed |-> TRUE]>>
  ELSE HasRoot(t) =>
         /\ Len(block) > 1
         /\ MapGet(dependencyMap, block[1].name) = <<>>
         /\ block[Len(block)].name = t
         /\ \A k \in 1..Len(block) :
              /\ block[k].failed = (k = Len(block))
              /\ block[k].indent = k - 1
              /\ block[k].connector = (k > 1)
              /\ k > 1 => block[k - 1].name
                            \in Range(MapGet(dependencyMap, block[k].name))

\* lines is one good block per test of tests, in order
RECURSIVE GoodBlocks(_, _)
GoodBlocks(lines, tests) ==
  IF tests = <<>> THEN lines = <<>>
  ELSE \E k \in 1..Len(lines) :
         /\ GoodBlock(SubSeq(lines, 1, k), Head(tests))
         /\ GoodBlocks(SubSeq(lines, k + 1, Len(lines)), Tail(tests))

\* C33: the rendered trace holds, for each failed test in order, either a
\* chain that starts at a test without dependencies, ends at the failed test
\* with the failure marker (and only there), and in which every element
\* after the first depends directly on the one before it (when the failed
\* test has a dependency and such a root is reachable from it), or the
\* failed test alone (when it has no dependency).
C33_ChainFromRoot ==
  trace.phase \in {"loop", "done"} =>
    GoodBlocks(trace.lines, SubSeq(trace.failed, 1, trace.i - 1))

\* a trace of two failed tests is complete: the first hangs two edges below
\* its root, on a map with a cycle; the second has no dependency
C33_Witness ==
  /\ trace.phase = "done"
  /\ Len(trace.failed) = 2
  /\ Len(trace.lines) = 4
  /\ trace.lines[3].failed
  /\ MapGet(dependencyMap, trace.failed[2]) = <<>>
  /\ \E t \in Tests : t \in Reach(dependencyMap, trace.failed[1]) \ {trace.failed[1]}
                        /\ trace.failed[1] \in Reach(dependencyMap, t)

\* C34: every call of buildDependencyTree returns, on every map and every
\* list of failed tests (a failed test on a cycle without a reachable root
\* included): the recursion of findRootDependencies is never deeper than the
\* number of ids plus one, the map is not written, and the selector
\* buildFilterPattern gives for the same failed tests after the call is the
\* one it gave before.
C34_TraceTerminates ==
  /\ [](Len(trace.stack) <= Cardinality(Tests) + 1)
  /\ [][dependencyMap' = dependencyMap]_vars
  /\ [](trace.phase = "done" =>
          buildFilterPattern(dependencyMap, FailedOf(trace.failed))
            = trace.selector)
  /\ ((trace.phase \in {"loop", "roots", "search"}) ~> (trace.phase = "done"))

\* the trace of a failed test on a two-cycle with no reachable root has
\* returned
C34_Witness ==
  /\ trace.phase = "done"
  /\ Len(trace.failed) = 1
  /\ ~HasRoot(trace.failed[1])
  /\ \E t \in Tests \ {trace.failed[1]} :
       /\ t \in Reach(dependencyMap, trace.failed[1])
       /\ trace.failed[1] \in Reach(dependencyMap, t)
  /\ trace.selector # <<>>

(***************************************************************************)
(* Properties of run().  `executed` numbers the attempt whose command is    *)
(* `command`; a state predicate on it speaks of every attempt in turn.      *)
(***************************************************************************)
\* the distinct files of a list of failing tests
FilesOf(names) ==
  {FileOf(names[i]) : i \in 1..Len(names)}

\* the current attempt's test process has ended by itself (the timer had
\* not fired on it) with one of these codes
EndedWith(codes) ==
  /\ executed >= 1
  /\ lastExit.attempt = executed
  /\ lastExit.code \in codes
  /\ child.fired # "running"

\* C1: the command of attempt k carries --filter if and only if k >= 2 and
\* a source file was found, during attempt 1, for every distinct file of the
\* failing tests of attempt 1; otherwise the full suite runs, unfiltered.
C1_FilterIff ==
  executed >= 1 =>
    (HasFilter(command) <=>
       /\ executed >= 2
       /\ firstParse.done
       /\ FilesOf(firstParse.failed) \subseteq firstParse.found)

\* attempt 2 runs filtered after attempt 1 failed tests of two files, both
\* found
C1_Witness ==
  /\ executed = 2
  /\ pc = "exec"
  /\ HasFilter(command)
  /\ Cardinality(FilesOf(firstParse.failed)) = 2

\* C2: once the test process of an attempt has exited by itself with code
\* 0, no wait and no later attempt follows, the run is not aborted, and it
\* ends with success reported and that attempt as the last one.
C2_ZeroExitSucceeds ==
  EndedWith({0}) =>
    /\ pc \notin {"waiting", "aborted"}
    /\ waits < executed
    /\ pc = "finished" => outputs.success /\ outputs.total_attempts = executed

\* C3: when the timer fires while the test process is running, the kill of
\* the process tree has been issued, the attempt is rejected with the timeout
\* error once the process has closed, no attempt or wait is started from then
\* on, and the run ends aborted with the timeout error.
C3_TimeoutAborts ==
  /\ [](child.fired = "running" =>
          /\ inputs.timeoutMinutes > 0
          /\ child.timedOut
          /\ child.kill = "running")
  /\ [](child.fired = "running" /\ child.state = "closed" =>
          pc = "aborted" /\ error = "timeout")
  /\ [][child.fired = "running" =>
          /\ executed' = executed
          /\ waits' = waits
          /\ child'.fired = "running"
          /\ outputs' = NoOutputs]_vars
  /\ ((child.fired = "running") ~> (pc = "aborted" /\ error = "timeout"))

\* a run with attempts left was aborted by a timer that fired on a running
\* process
C3_Witness ==
  /\ child.fired = "running"
  /\ pc = "aborted"
  /\ error = "timeout"
  /\ executed < inputs.maxAttempts

\* C4: a timer that fires after the test process has exited does nothing:
\* no kill is issued, the attempt is not marked timed out, and the run is
\* not rejected with the timeout error.
C4_LateTimerNoOp ==
  child.fired = "exited" =>
    /\ child.kill = "none"
    /\ ~child.timedOut
    /\ error # "timeout"

\* the command's report is copied out of a container before it is read
WillExtract ==
  /\ isDockerCommand(command)
  /\ buildExtractCommand(command, localJunitPath, existingJunitPath).form # "none"

\* the report file the run reads after this attempt no longer changes
ReportSettled ==
  \/ pc \in {"extracted", "finished", "waiting", "aborted"}
  \/ pc = "extract" /\ extractChild.state \in {"exited", "failed"}
  \/ pc \in {"exec", "resolved"} /\ ~WillExtract

\* C5: after an attempt whose process exited by itself nonzero, with the
\* report file missing or holding no failing test, no wait or further
\* attempt follows and the run ends failed with that attempt's exit code.
C5_NoReportStops ==
  ( /\ EndedWith(ExitCodes \ {0})
    /\ ReportSettled
    /\ \/ ~localFs[localJunitPath].exists
       \/ localFs[localJunitPath].failed = <<>> ) =>
    /\ pc \notin {"waiting", "aborted"}
    /\ pc = "finished" =>
         /\ outputs.exit_code = lastExit.code
         /\ ~outputs.success
         /\ outputs.setFailed

\* C6: a run that ends without a timeout or spawn error reports as
\* total_attempts the number of test processes it spawned, which is at least
\* 1 and at most maxAttempts.
C6_TotalAttempts ==
  pc = "finished" =>
    /\ outputs.total_attempts = executed
    /\ 1 <= executed
    /\ executed <= inputs.maxAttempts

\* a run ended failed after using every attempt of two or more
C6_Witness ==
  /\ pc = "finished"
  /\ executed = inputs.maxAttempts
  /\ executed >= 2
  /\ outputs.total_attempts = executed
  /\ ~outputs.success

\* C7: a run that ends without abort reports as exit_code the exit code of
\* the last process executed, success exactly when that code is 0, and is
\* marked failed exactly when it is not.
C7_LastExitCode ==
  pc = "finished" =>
    /\ lastExit.attempt = executed
    /\ outputs.exit_code = lastExit.code
    /\ outputs.success <=> lastExit.code = 0
    /\ outputs.setFailed <=> lastExit.code # 0

\* C35: a run reports success only if its last test process ended by exiting
\* with status code 0; a process ended by a signal (no exit code) does not
\* make its attempt a passing one.
C35_SuccessOnlyOnExitZero ==
  /\ pc = "finished" /\ outputs.success
       => lastExit.attempt = executed /\ lastExit.code = 0
  /\ pc = "resolved" /\ lastExit.attempt = executed /\ lastExit.code = NoCode
       => exitCode # 0

\* C36: when the caller's command names no report path of its own, every
\* report parsed for an attempt was written by that attempt's process, for
\* local and containerized commands alike.
C36_ParsesOwnReport ==
  existingJunitPath = "" /\ lastParse.attempt >= 1
    => lastParse.by = lastParse.attempt

\* names within the resolved closure of some test of the list
ClosureOf(names) ==
  UNION {Reach(dependencyMap, names[i]) : i \in 1..Len(names)}

\* C8: the selector of a filtered attempt k+1 names every test that failed in
\* attempt k (the attempt just before) and every test of the closure of each.
C8_SelectorCovers ==
  HasFilter(command) =>
    /\ lastParse.attempt \in {executed - 1, executed}
    /\ lastParse.attempt = executed - 1 =>
         /\ Range(lastParse.failed) \subseteq Range(FilterOf(command))
         /\ ClosureOf(lastParse.failed) \subseteq Range(FilterOf(command))

\* attempt 3 runs filtered on the failures of attempt 2, which differ from
\* those of attempt 1 and have a dependency that did not fail
C8_Witness ==
  /\ executed = 3
  /\ pc = "exec"
  /\ HasFilter(command)
  /\ lastParse.attempt = 2
  /\ lastParse.failed # firstParse.failed
  /\ ~(ClosureOf(lastParse.failed) \subseteq Range(lastParse.failed))

\* C37: when attempt k ran filtered, every test of the report parsed for it
\* is named by its selector, and attempt k+1 runs filtered too, then every
\* test named by the selector of attempt k+1 is named by that of attempt k.
C37_ScopeNeverWidens ==
  [][(/\ executed' = executed + 1
      /\ HasFilter(command)
      /\ HasFilter(command')
      /\ lastParse.attempt = executed
      /\ Range(lastParse.failed) \subseteq Range(FilterOf(command)))
     => Range(FilterOf(command')) \subseteq Range(FilterOf(command))]_vars

\* attempt 3 runs filtered on fewer tests than attempt 2 did, on a map that
\* gave attempt 2 a dependency that had not failed
C37_Witness ==
  /\ executed = 3
  /\ pc = "exec"
  /\ HasFilter(command)
  /\ lastParse.attempt = 2
  /\ Range(lastParse.failed) \subseteq ClosureOf(firstParse.failed)
  /\ Range(FilterOf(command)) # ClosureOf(firstParse.failed)
  /\ Range(FilterOf(command)) # Range(lastParse.failed)
  /\ ClosureOf(firstParse.failed) # Range(firstParse.failed)

(***************************************************************************)
(* buildFilterPattern called on every map and every list of failed tests   *)
(* (a list may name a test twice).                                         *)
(***************************************************************************)
FailedLists ==
  UNION {[1..n -> Tests] : n \in 0..MaxFailed}

\* resolver.buildFilterPattern(failedTests)
CallBuildFilterPattern ==
  /\ call.op = "none"
  /\ rPhase = "idle"
  /\ \E F \in FailedLists :
       call' = [op |-> "buildFilterPattern", arg |-> F, threw |-> FALSE,
                result |-> buildFilterPattern(dependencyMap, FailedOf(F))]
  /\ UNCHANGED <<dependencyMap, rvars, inputs, sourceFiles, localFs,
                 containerFs, pc, runvars, child, extractChild, outputs, error,
                 histvars, ingestLog, trace>>

\* failed-test lists of at most one test
ShortLists ==
  {<<>>} \cup {<<t>> : t \in Tests}

\* run() 897-901: the selector of a failed-test list and the retried count
\* derived from it
CallTestsToRun ==
  /\ call.op = "none"
  /\ rPhase = "idle"
  /\ \E F \in ShortLists :
       LET filterPattern == buildFilterPattern(dependencyMap, FailedOf(F))
       IN call' = [op |-> "testsToRun", arg |-> F, threw |-> FALSE,
                   result |-> [filterPattern |-> filterPattern,
                               testsToRun |-> testsToRun(filterPattern)]]
  /\ UNCHANGED <<dependencyMap, rvars, inputs, sourceFiles, localFs,
                 containerFs, pc, runvars, child, extractChild, outputs, error,
                 histvars, ingestLog, trace>>

FilterNext ==
  \/ CallBuildFilterPattern
  \/ CallTestsToRun

FilterSpec ==
  ResolverInit /\ [][FilterNext]_vars

\* the identifier of a test followed by the end-of-string marker
Anchored(t) ==
  t \o "$"

\* C11: every entry of the selector returned by buildFilterPattern ends in
\* `$`, and the selector holds, for each failed test of the list, that
\* test's identifier anchored with `$`.
C11_EntriesAnchored ==
  call.op = "buildFilterPattern" =>
    /\ \A i \in 1..Len(call.result) :
         \E t \in Tests : call.result[i] = Anchored(t)
    /\ \A j \in 1..Len(call.arg) :
         Anchored(call.arg[j]) \in Range(call.result)

\* the test an entry of the selector names, anchored or not
NamedBy(entry) ==
  CHOOSE t \in Tests : entry \in {t, Anchored(t)}

\* C12: the tests named by the entries of the selector are exactly the union
\* of the closures of the failed tests of the list, and no test is named by
\* two entries, also when closures overlap or the list repeats a test.
C12_UnionOfClosures ==
  call.op = "buildFilterPattern" =>
    /\ \A i \in 1..Len(call.result) :
         \E t \in Tests : call.result[i] \in {t, Anchored(t)}
    /\ {NamedBy(call.result[i]) : i \in 1..Len(call.result)} =
         UNION {Reach(dependencyMap, call.arg[j]) : j \in 1..Len(call.arg)}
    /\ \A i, k \in 1..Len(call.result) :
         NamedBy(call.result[i]) = NamedBy(call.result[k]) => i = k

\* a selector was built for a list that repeats a test, on a map where the
\* closures of two failed tests overlap in a test that did not fail
C12_Witness ==
  /\ call.op = "buildFilterPattern"
  /\ Len(call.result) = Cardinality(Tests)
  /\ \E j, k \in 1..Len(call.arg) : j # k /\ call.arg[j] = call.arg[k]
  /\ \E j, k \in 1..Len(call.arg) :
       /\ call.arg[j] # call.arg[k]
       /\ \E t \in Tests \ Range(call.arg) :
            t \in Reach(dependencyMap, call.arg[j]) \cap
                  Reach(dependencyMap, call.arg[k])

(***************************************************************************)
(* parseTestFile called on the files of a workspace in any order, a file   *)
(* possibly more than once.  The class name of a file is what the regular  *)
(* expressions of lines 11-18 find in its text, so two files can yield the *)
(* same key.                                                               *)
(***************************************************************************)
\* a test method with a docblock: its key and its @depends targets
Methods ==
  [key : {"A::t1", "A::t2"},
   deps : {<<>>} \cup {<<t>> : t \in Tests}]

\* the methods of a file, in the order of the text
FileContents ==
  UNION {[1..n -> Methods] : n \in 0..2}

IngestInit ==
  /\ dependencyMap = <<>>
  /\ ResolverIdle
  /\ inputs = [command |-> <<W("phpunit")>>, maxAttempts |-> 1,
               timeoutMinutes |-> 0]
  /\ sourceFiles \in [Files -> FileContents]
  /\ localFs = [p \in Paths |-> NoFile]
  /\ containerFs = [p \in Paths |-> NoFile]
  /\ RunIdle

\* resolver.parseTestFile(fullPath)
Ingest ==
  /\ Len(ingestLog) < MaxIngests
  /\ \E f \in Files :
       /\ dependencyMap' = parseTestFile(dependencyMap, sourceFiles[f])
       /\ ingestLog' = Append(ingestLog, f)
  /\ UNCHANGED <<rvars, inputs, sourceFiles, localFs, containerFs, pc,
                 runvars, child, extractChild, outputs, error, histvars, call,
                 trace>>

IngestSpec ==
  IngestInit /\ [][Ingest]_vars

\* this step ingests a file that was ingested before
Reingest ==
  /\ Len(ingestLog') = Len(ingestLog) + 1
  /\ ingestLog'[Len(ingestLog')] \in Range(ingestLog)

\* C13: ingesting a file again, at any point after its first ingest, leaves
\* the dependency map as it is.
C13_ReingestNoChange ==
  [][Reingest => dependencyMap' = dependencyMap]_vars

\* C14: no ingest removes a test id that has an entry, and no ingest removes
\* a dependency recorded for a test id.
C14_MapOnlyGrows ==
  [][\A k \in MapKeys(dependencyMap) :
       /\ k \in MapKeys(dependencyMap')
       /\ Range(MapGet(dependencyMap, k)) \subseteq
            Range(MapGet(dependencyMap', k))]_vars

(***************************************************************************)
(* JUnitParser (src/src/parsers/junit.ts) on the object XMLParser.parse    *)
(* returns.  An attribute value is the sequence of its lexemes ("Ns\B" is  *)
(* <<"Ns", "\\", "B">>), "" is the empty sequence, an absent attribute is  *)
(* Undefined; a count attribute is its number, NoAttr when absent.  A      *)
(* <failure> or <error> child of PHPUnit carries attributes and text, so   *)
(* its parsed value is truthy: a marker is its presence.                   *)
(***************************************************************************)
Undefined ==
  <<"<undefined>">>

\* !value, for an attribute value
Falsy(v) ==
  v = <<>> \/ v = Undefined

NoAttr ==
  -1

\* parseInt(value || '0', 10)
parseIntOr0(a) ==
  IF a = NoAttr THEN 0 ELSE a

\* the <testcase> elements the reports of the model hold
Testcases ==
  { [class |-> <<"A">>, name |-> <<"t1">>, file |-> <<"A.php">>,
     failure |-> TRUE, error |-> FALSE],
    [class |-> <<"Ns", "\\", "B">>, name |-> <<"t1">>, file |-> <<"B.php">>,
     failure |-> FALSE, error |-> TRUE],
    [class |-> <<"A">>, name |-> <<"t2">>, file |-> <<"A.php">>,
     failure |-> FALSE, error |-> FALSE],
    [class |-> <<"A">>, name |-> <<"t3">>, file |-> Undefined,
     failure |-> TRUE, error |-> FALSE],
    [class |-> <<>>, name |-> <<"t4">>, file |-> <<"A.php">>,
     failure |-> TRUE, error |-> FALSE],
    [class |-> <<"A">>, name |-> Undefined, file |-> <<"B.php">>,
     failure |-> FALSE, error |-> TRUE],
    [class |-> <<"A">>, name |-> <<"t5", " with data set ", "a", "::", "b">>,
     file |-> <<"A.php">>, failure |-> TRUE, error |-> FALSE] }

\* a <testsuite> element: count attributes, nested suites, testcases
Suite(tests, failures, errors, nested, cases) ==
  [tests |-> tests, failures |-> failures, errors |-> errors,
   testsuite |-> nested, testcase |-> cases]

\* suites whose testcases matter, nested at most d deep
RECURSIVE FailureSuites(_)
FailureSuites(d) ==
  {Suite(NoAttr, NoAttr, NoAttr, nested, cases) :
     nested \in IF d <= 1 THEN {<<>>}
               ELSE {<<>>} \cup {<<n>> : n \in FailureSuites(d - 1)},
     cases \in {<<>>} \cup {<<c>> : c \in Testcases}}

\* suites whose count attributes matter, with or without one nested suite
StatsSuites ==
  {Suite(t, f, e, nested, <<>>) :
     t \in {NoAttr, 3}, f \in {NoAttr, 1}, e \in {NoAttr, 1},
     nested \in {<<>>, <<Suite(4, 1, 1, <<>>, <<>>)>>}}

\* a parsed document: root <testsuites> (a container: its testsuite children
\* after ensureArray) or root <testsuite> (the suite itself)
Document(kind, suite) ==
  [kind |-> kind, tests |-> suite.tests, failures |-> suite.failures,
   errors |-> suite.errors, testsuite |-> suite.testsuite,
   testcase |-> suite.testcase]

UpTo2(S) ==
  UNION {[1..n -> S] : n \in 0..2}

FailureDocuments ==
  {Document("testsuites", Suite(NoAttr, NoAttr, NoAttr, children, <<>>)) :
     children \in UpTo2(FailureSuites(MaxDepth))}
  \cup {Document("testsuite", suite) : suite \in FailureSuites(MaxDepth)}

StatsDocuments ==
  {Document("testsuites", Suite(t, f, e, children, <<>>)) :
     t \in {NoAttr, 0, 5}, f \in {NoAttr, 2}, e \in {NoAttr, 1},
     children \in UpTo2(StatsSuites)}
  \cup {Document("testsuite", suite) : suite \in StatsSuites}

\* report paths without a report behind them: no file at the path, or a
\* file whose content is not a report (cut short, or not XML at all)
BadPaths ==
  {Document(kind, Suite(NoAttr, NoAttr, NoAttr, <<>>, <<>>)) :
     kind \in {"missing", "unparsable"}}

\* fs.readFileSync(xmlPath, 'utf-8') and parser.parse(xmlContent): the ways
\* the two calls can end. readFileSync throws for a path without file.
\* XMLParser.parse is library code: on content that is not a report it
\* either throws or returns an object with neither root.
readAndParse(path) ==
  IF path.kind = "missing"
  THEN {[threw |-> TRUE, result |-> path]}
  ELSE IF path.kind = "unparsable"
  THEN {[threw |-> TRUE, result |-> path],
        [threw |-> FALSE,
         result |-> Document("none",
                             Suite(NoAttr, NoAttr, NoAttr, <<>>, <<>>))]}
  ELSE {[threw |-> FALSE, result |-> path]}

\* fullName.split('\\').pop() || fullName
className(fullName) ==
  LET cuts == {i \in 1..Len(fullName) : fullName[i] = "\\"}
      last == IF cuts = {} THEN fullName
              ELSE SubSeq(fullName,
                          (CHOOSE i \in cuts : \A j \in cuts : j <= i) + 1,
                          Len(fullName))
  IN IF last = <<>> THEN fullName ELSE last

\* if (testcase.failure || testcase.error)
hasMarker_FailureOnly(testcase) ==
  testcase.failure

hasMarker(testcase) ==
  testcase.failure \/ testcase.error

\* if (!fullName || !methodName || !file) continue
missingField_NoFileCheck(fullName, methodName, file) ==
  Falsy(fullName) \/ Falsy(methodName)

missingField(fullName, methodName, file) ==
  Falsy(fullName) \/ Falsy(methodName) \/ Falsy(file)

\* failures.push({name, class, method, file, line})
FailedTest(testcase) ==
  [name |-> testcase.class \o <<"::">> \o testcase.name,
   class |-> className(testcase.class),
   method |-> testcase.name,
   file |-> testcase.file]

\* for (const testcase of testcases) { ... }
RECURSIVE extractTestcases(_, _, _)
extractTestcases(testcases, i, failures) ==
  IF i > Len(testcases) THEN failures
  ELSE extractTestcases(
         testcases, i + 1,
         IF /\ hasMarker(testcases[i])
            /\ ~missingField(testcases[i].class, testcases[i].name,
                             testcases[i].file)
         THEN Append(failures, FailedTest(testcases[i]))
         ELSE failures)

\* nested suites first, then the suite's own testcases
RECURSIVE extractFailuresFromSuite(_, _)
RECURSIVE extractSuites(_, _, _)
extractSuites(suites, i, failures) ==
  IF i > Len(suites) THEN failures
  ELSE extractSuites(suites, i + 1,
                     extractFailuresFromSuite(suites[i], failures))

extractFailuresFromSuite(suite, failures) ==
  extractTestcases(suite.testcase, 1,
                   extractSuites(suite.testsuite, 1, failures))

\* parseXMLFile after parser.parse: lines 14-28
parseXML(result) ==
  IF result.kind = "testsuites"
  THEN extractSuites(result.testsuite, 1, <<>>)
  ELSE IF result.kind = "testsuite"
  THEN extractFailuresFromSuite(result, <<>>)
  ELSE <<>>

\* total += parseInt(suite['@_tests'] || '0', 10) ... over the child suites
RECURSIVE sumSuites(_, _, _)
sumSuites(suites, i, acc) ==
  IF i > Len(suites) THEN acc
  ELSE sumSuites(suites, i + 1,
                 [total |-> acc.total + parseIntOr0(suites[i].tests),
                  failures |-> acc.failures + parseIntOr0(suites[i].failures),
                  errors |-> acc.errors + parseIntOr0(suites[i].errors)])

\* return { total, failures: failures + errors, assertions }
statsOf_FailuresOnly(total, failures, errors) ==
  [total |-> total, failures |-> failures]

statsOf(total, failures, errors) ==
  [total |-> total, failures |-> failures + errors]

\* getTestStats after parser.parse: lines 43-76 (assertions left out)
getTestStats(result) ==
  IF result.kind = "testsuites" /\ parseIntOr0(result.tests) <= 0
  THEN LET sum == sumSuites(result.testsuite, 1,
                            [total |-> 0, failures |-> 0, errors |-> 0])
       IN statsOf(sum.total, sum.failures, sum.errors)
  ELSE IF result.kind \in {"testsuites", "testsuite"}
  THEN statsOf(parseIntOr0(result.tests), parseIntOr0(result.failures),
               parseIntOr0(result.errors))
  ELSE statsOf(0, 0, 0)

\* what a call that threw leaves to its caller
NoStats ==
  [total |-> 0, failures |-> 0]

\* parser.parseXMLFile(path)
CallParseXMLFile ==
  /\ call.op = "none"
  /\ \E path \in FailureDocuments \cup BadPaths :
     \E read \in readAndParse(path) :
       call' = [op |-> "parseXMLFile", arg |-> path, threw |-> read.threw,
                result |-> IF read.threw THEN <<>>
                           ELSE parseXML(read.result)]
  /\ UNCHANGED <<dependencyMap, rvars, inputs, sourceFiles, localFs,
                 containerFs, pc, runvars, child, extractChild, outputs, error,
                 histvars, ingestLog, trace>>

\* parser.getTestStats(path)
CallGetTestStats ==
  /\ call.op = "none"
  /\ \E path \in StatsDocuments \cup BadPaths :
     \E read \in readAndParse(path) :
       call' = [op |-> "getTestStats", arg |-> path, threw |-> read.threw,
                result |-> IF read.threw THEN NoStats
                           ELSE getTestStats(read.result)]
  /\ UNCHANGED <<dependencyMap, rvars, inputs, sourceFiles, localFs,
                 containerFs, pc, runvars, child, extractChild, outputs, error,
                 histvars, ingestLog, trace>>

ParserNext ==
  \/ CallParseXMLFile
  \/ CallGetTestStats

ParserInit ==
  ResolverInit /\ dependencyMap = <<>>

ParserSpec ==
  ParserInit /\ [][ParserNext]_vars

\* number of places of the tree under a suite (or document) that hold the
\* testcase c
RECURSIVE CountIn(_, _)
RECURSIVE CountInAll(_, _)
CountInAll(suites, c) ==
  IF suites = <<>> THEN 0
  ELSE CountIn(Head(suites), c) + CountInAll(Tail(suites), c)

CountIn(suite, c) ==
  Cardinality({i \in 1..Len(suite.testcase) : suite.testcase[i] = c})
    + CountInAll(suite.testsuite, c)

\* the testcase has a failure or error marker
Marked(c) ==
  c.failure \/ c.error

\* the testcase has a class, a name and a file attribute, none empty
Complete(c) ==
  /\ c.class \notin {<<>>, Undefined}
  /\ c.name \notin {<<>>, Undefined}
  /\ c.file \notin {<<>>, Undefined}

\* the entry is the record of the testcase c
RecordOf(entry, c) ==
  /\ entry.name = c.class \o <<"::">> \o c.name
  /\ entry.method = c.name
  /\ entry.file = c.file

\* number of entries of the result that are records of the testcase c
EntriesOf(result, c) ==
  Cardinality({i \in 1..Len(result) : RecordOf(result[i], c)})

\* C15: for a report with a <testsuites> or a <testsuite> root and suites
\* nested to any depth, the result holds one entry per marked, complete
\* testcase of the tree, as many entries as there are such testcases, and
\* every entry has a non-empty class, method and file.
C15_OnePerFailingCase ==
  call.op = "parseXMLFile" /\ ~call.threw =>
    /\ \A c \in Testcases :
         Marked(c) /\ Complete(c) =>
           EntriesOf(call.result, c) = CountIn(call.arg, c)
    /\ \A i \in 1..Len(call.result) :
         /\ \E c \in Testcases :
              Marked(c) /\ Complete(c) /\ RecordOf(call.result[i], c)
         /\ call.result[i].class \notin {<<>>, Undefined}
         /\ call.result[i].method \notin {<<>>, Undefined}
         /\ call.result[i].file \notin {<<>>, Undefined}

\* a <testsuites> report with failing testcases in suites of both depths,
\* one of them twice, gave four entries
C15_Witness ==
  /\ call.op = "parseXMLFile"
  /\ ~call.threw
  /\ call.arg.kind = "testsuites"
  /\ Len(call.result) = 4
  /\ \E c \in Testcases : EntriesOf(call.result, c) = 2
  /\ \E i \in 1..Len(call.arg.testsuite) :
       /\ call.arg.testsuite[i].testsuite # <<>>
       /\ call.arg.testsuite[i].testsuite[1].testcase # <<>>

\* C16: the result holds no entry for a testcase without marker, nor for a
\* marked testcase whose class, name or file is missing or empty; the
\* entries of the other testcases are all there.
C16_SkipsOthers ==
  call.op = "parseXMLFile" /\ ~call.threw =>
    /\ \A c \in Testcases :
         ~(Marked(c) /\ Complete(c)) => EntriesOf(call.result, c) = 0
    /\ \A i \in 1..Len(call.result) :
         ~Falsy(call.result[i].file) /\ ~Falsy(call.result[i].method)
    /\ \A c \in Testcases :
         Marked(c) /\ Complete(c) /\ CountIn(call.arg, c) > 0 =>
           EntriesOf(call.result, c) > 0

\* a report with a passed testcase, a failing testcase without file and a
\* failing complete testcase gave the entry of the last one only
C16_Witness ==
  /\ call.op = "parseXMLFile"
  /\ \E c \in Testcases : ~Marked(c) /\ CountIn(call.arg, c) > 0
  /\ \E c \in Testcases :
       Marked(c) /\ c.file = Undefined /\ CountIn(call.arg, c) > 0
  /\ Len(call.result) = 1

\* C17: the identifier of every entry of the result holds exactly one "::".
C17_OneSeparator ==
  call.op = "parseXMLFile" =>
    \A i \in 1..Len(call.result) :
      Cardinality({k \in 1..Len(call.result[i].name) :
                     call.result[i].name[k] = "::"}) = 1

\* sums of the count attributes of the suites of a sequence
RECURSIVE SumTests(_)
SumTests(suites) ==
  IF suites = <<>> THEN 0
  ELSE (IF Head(suites).tests = NoAttr THEN 0 ELSE Head(suites).tests)
         + SumTests(Tail(suites))

RECURSIVE SumFailed(_)
SumFailed(suites) ==
  IF suites = <<>> THEN 0
  ELSE (IF Head(suites).failures = NoAttr THEN 0 ELSE Head(suites).failures)
         + (IF Head(suites).errors = NoAttr THEN 0 ELSE Head(suites).errors)
         + SumFailed(Tail(suites))

\* C18: for a <testsuites> root with a tests count that is present and not
\* zero the stats are the root's own counts; for any other <testsuites>
\* root they are the sums over its immediate child suites, nested suites
\* not counted; for a <testsuite> root they are its own counts; failed is
\* always failures plus errors.
C18_Stats ==
  call.op = "getTestStats" /\ ~call.threw =>
    LET d == call.arg
        own == <<d>>
    IN IF d.kind = "testsuites" /\ d.tests \in {NoAttr, 0}
       THEN /\ call.result.total = SumTests(d.testsuite)
            /\ call.result.failures = SumFailed(d.testsuite)
       ELSE /\ call.result.total = SumTests(own)
            /\ call.result.failures = SumFailed(own)

\* a <testsuites> root without counts, over two suites with failures and
\* errors, one of them with a nested suite, gave the sums of the two
C18_Witness ==
  /\ call.op = "getTestStats"
  /\ ~call.threw
  /\ call.arg.kind = "testsuites"
  /\ call.arg.tests = NoAttr
  /\ Len(call.arg.testsuite) = 2
  /\ call.arg.testsuite[1].testsuite # <<>>
  /\ call.result = [total |-> 6, failures |-> 4]

\* C19: a call of the parser on a path whose file is missing or whose
\* content is not a parsable report never throws.
C19_NeverThrows ==
  call.op \in {"parseXMLFile", "getTestStats"} => ~call.threw

(***************************************************************************)
(* CommandBuilder.extractContainerName on its own: the commands a caller   *)
(* may hand over, built from their parts.                                  *)
(***************************************************************************)
\* the invocation keywords of the three forms
InvocationForms ==
  {<<W("docker"), W("exec")>>,
   <<W("docker"), W("compose"), W("exec")>>,
   <<W("docker-compose"), W("exec")>>}

\* runs of flags between the keywords and the container: none, a plain flag,
\* flags that take a value, a flag with its value joined by '='
FlagRuns ==
  {<<>>,
   <<W("-T")>>,
   <<W("-u"), W("root")>>,
   <<W("--user=root")>>,
   <<W("-T"), W("-e"), W("FOO=1")>>,
   <<W("-w"), W("/app"), W("-T")>>}

\* bare NAME=value tokens in front of the keywords
EnvPrefixes ==
  {<<>>, <<W("FOO=1")>>, <<W("FOO=1"), W("FOO=1")>>}

ContainerNames ==
  {"app", "web"}

\* a command by its parts; container "" with keywords <<>> is a command
\* that runs no container
BuiltCommands ==
  {[env |-> env, form |-> form, flags |-> flags, container |-> c,
    command |-> env \o form \o flags \o <<W(c), W("phpunit")>>] :
     env \in EnvPrefixes, form \in InvocationForms, flags \in FlagRuns,
     c \in ContainerNames}
  \cup {[env |-> env, form |-> <<>>, flags |-> <<>>, container |-> "",
          command |-> env \o <<W("phpunit")>>] :
          env \in EnvPrefixes}

\* containerized commands that end in a flag that takes a value, the value
\* and everything behind it missing
TruncatedCommands ==
  {[env |-> <<>>, form |-> form, flags |-> flags \o <<W(last)>>,
    container |-> "", command |-> form \o flags \o <<W(last)>>] :
     form \in InvocationForms, flags \in FlagRuns, last \in flagsWithArgs}

\* builder.extractContainerName(command)
CallExtractContainerName ==
  /\ call.op = "none"
  /\ \E built \in BuiltCommands \cup TruncatedCommands :
       call' = [op |-> "extractContainerName", arg |-> built,
                threw |-> FALSE,
                result |-> extractContainerName(built.command)]
  /\ UNCHANGED <<dependencyMap, rvars, inputs, sourceFiles, localFs,
                 containerFs, pc, runvars, child, extractChild, outputs, error,
                 histvars, ingestLog, trace>>

\* builder.buildExtractCommand(command, destPath, customContainerPath)
CallBuildExtractCommand ==
  /\ call.op = "none"
  /\ \E built \in BuiltCommands :
     \E destPath \in {defaultLocalJunitPath, "own.xml"} :
     \E customContainerPath \in {"", "own.xml"} :
       call' = [op |-> "buildExtractCommand",
                arg |-> [built |-> built, destPath |-> destPath,
                         customContainerPath |-> customContainerPath],
                threw |-> FALSE,
                result |-> buildExtractCommand(built.command, destPath,
                                               customContainerPath)]
  /\ UNCHANGED <<dependencyMap, rvars, inputs, sourceFiles, localFs,
                 containerFs, pc, runvars, child, extractChild, outputs, error,
                 histvars, ingestLog, trace>>

\* builder.addEnvVar(command, 'PHPUNIT_RETRY_ATTEMPT', attempt.toString())
CallAddEnvVar ==
  /\ call.op = "none"
  /\ \E built \in BuiltCommands \cup TruncatedCommands :
     \E value \in 1..2 :
       call' = [op |-> "addEnvVar",
                arg |-> [built |-> built, value |-> value],
                threw |-> FALSE,
                result |-> addEnvVar(built.command, "PHPUNIT_RETRY_ATTEMPT",
                                     value)]
  /\ UNCHANGED <<dependencyMap, rvars, inputs, sourceFiles, localFs,
                 containerFs, pc, runvars, child, extractChild, outputs, error,
                 histvars, ingestLog, trace>>

\* the report flag a caller may have put at the end of the command: none,
\* flag and path as two words, flag and path joined by `=`
ReportFlags ==
  {<<>>, <<W("--log-junit"), W("own.xml")>>, <<W("--log-junit=own.xml")>>}

\* run() 857-860 and 880-884: builder.extractJUnitPath(command) and
\* builder.addJUnitLogging(command, defaultLocalJunitPath) on the caller's
\* command
CallAddJUnitLogging ==
  /\ call.op = "none"
  /\ \E built \in BuiltCommands :
     \E report \in ReportFlags :
       call' = [op |-> "addJUnitLogging",
                arg |-> [built |-> built, report |-> report],
                threw |-> FALSE,
                result |-> [command |-> addJUnitLogging(built.command \o report,
                                                        defaultLocalJunitPath),
                            path |-> extractJUnitPath(built.command \o report)]]
  /\ UNCHANGED <<dependencyMap, rvars, inputs, sourceFiles, localFs,
                 containerFs, pc, runvars, child, extractChild, outputs, error,
                 histvars, ingestLog, trace>>

BuilderNext ==
  \/ CallExtractContainerName
  \/ CallBuildExtractCommand
  \/ CallAddEnvVar
  \/ CallAddJUnitLogging

BuilderSpec ==
  ParserInit /\ [][BuilderNext]_vars

\* C20: extractContainerName returns the container of a command of any of
\* the three forms, whatever flags stand before it and also behind leading
\* NAME=value tokens, and null ("") for a command that runs no container.
C20_ContainerFound ==
  call.op = "extractContainerName" => call.result = call.arg.container

\* the copy form that goes with the invocation keywords of a command
CopyFormOf(form) ==
  IF form = <<W("docker"), W("compose"), W("exec")>> THEN "docker compose cp"
  ELSE IF form = <<W("docker-compose"), W("exec")>> THEN "docker-compose cp"
  ELSE "docker cp"

\* C21: buildExtractCommand returns null exactly for a command that names
\* no container; for any other it returns the copy command of that
\* container, from the caller's source path (else the fixed container path)
\* to the destination, in the compose copy form for a compose exec command
\* and the docker copy form for a docker exec command.
C21_CopyCommand ==
  call.op = "buildExtractCommand" =>
    LET built == call.arg.built
    IN /\ call.result = NoExtract <=> built.container = ""
       /\ built.container # "" =>
            /\ call.result.container = built.container
            /\ call.result.form = CopyFormOf(built.form)
            /\ call.result.src = IF call.arg.customContainerPath = ""
                                 THEN containerJunitPath
                                 ELSE call.arg.customContainerPath
            /\ call.result.dest = call.arg.destPath

\* C22: addEnvVar returns a command that runs no container as it is, and
\* for a containerized command it puts -e NAME=value right behind the
\* keywords and the flags, before the container, the rest as it was.
C22_EnvInserted ==
  call.op = "addEnvVar" /\ call.arg.built \in BuiltCommands =>
    LET built == call.arg.built
    IN call.result =
         IF built.container = "" THEN built.command
         ELSE built.env \o built.form \o built.flags
                \o <<W("-e"),
                     W(EnvAssignment("PHPUNIT_RETRY_ATTEMPT", call.arg.value))>>
                \o <<W(built.container), W("phpunit")>>

\* C23: when the test command cannot be spawned, the step that follows
\* aborts the run with the spawn error and parses no report, starts no wait
\* and no process; after that the run takes no step at all.
C23_SpawnErrorAborts ==
  [][IF child.state = "spawnfail"
     THEN /\ pc' = "aborted"
          /\ error' = "spawn"
          /\ UNCHANGED <<lastParse, waits, executed, attempt, failedTests,
                         outputs, localFs, dependencyMap>>
     ELSE ~(pc = "aborted" /\ error = "spawn")]_vars

\* the second attempt could not be spawned and the run was aborted
C23_Witness ==
  /\ pc = "aborted"
  /\ error = "spawn"
  /\ attempt = 2
  /\ waits = 1
  /\ lastParse.attempt = 1

\* C24: from the moment the test process has resolved until the report is
\* handled, whatever the copy step does (no container name, spawn error,
\* nonzero exit), no step aborts the run or changes the attempt's exit code,
\* and the only way on is the exit-code check.
C24_ExtractionNonFatal ==
  [][(pc \in {"resolved", "extract", "extracted"}) =>
       ( /\ pc' \in {"extract", "extracted", "waiting", "finished"}
         /\ error' = error
         /\ exitCode' = exitCode )]_vars

\* the copy of a failed second attempt could not be spawned; the run stands
\* before the exit-code check with the exit code of the test process
C24_Witness ==
  /\ pc = "extracted"
  /\ extractChild.state = "failed"
  /\ attempt = 2
  /\ exitCode = 2
  /\ error = ""

\* C25: when the configured command names its own report path, no step of
\* the run removes the file at that path; when it names none, the default
\* report file is gone when the process of an attempt has been started.
C25_StaleReportDeleted ==
  [][IF existingJunitPath # ""
     THEN localFs[existingJunitPath].exists
            => localFs'[existingJunitPath].exists
     ELSE executed' # executed
            => ~localFs'[defaultLocalJunitPath].exists]_vars

\* the second attempt of a command without report path of its own has been
\* started after the report of the first one was parsed: the file is gone
C25_Witness ==
  /\ existingJunitPath = ""
  /\ pc = "exec"
  /\ attempt = 2
  /\ child.state = "running"
  /\ lastParse = [attempt |-> 1, by |-> 1, failed |-> <<"A::t2">>]
  /\ ~localFs[defaultLocalJunitPath].exists

\* C26: no step of an attempt after the first changes the dependency map
\* or the all-files-found gate.
C26_IngestFirstAttemptOnly ==
  [][attempt >= 2 =>
       dependencyMap' = dependencyMap
         /\ dependenciesParsed' = dependenciesParsed]_vars

\* the report of the second attempt, with another failing test than the
\* first, was parsed, and the gate is still closed
C26_Witness ==
  /\ lastParse = [attempt |-> 2, by |-> 2, failed |-> <<"B::t1">>]
  /\ firstParse.done
  /\ firstParse.failed = <<"A::t2">>
  /\ firstParse.found = {}
  /\ ~dependenciesParsed
  /\ dependencyMap = <<>>

\* C27: when a run has finished, failed_tests is empty if the run succeeded,
\* and any test it lists comes from the report that the last executed
\* attempt wrote, never from the report of an earlier attempt.
C27_FailedTestsOfLastAttempt ==
  pc = "finished" =>
    /\ outputs.success => outputs.failed_tests = <<>>
    /\ outputs.failed_tests # <<>> =>
         /\ lastParse.attempt = lastExit.attempt
         /\ lastParse.by = lastExit.attempt
         /\ outputs.failed_tests = lastParse.failed

\* a process that has been started and whose streams have not closed yet
Live(process) ==
  process.state \in {"running", "exited"}

\* C28: the test process and the copy subprocess are never live together;
\* a test process is started only when no process is live; the copy is
\* started only when the test process of the attempt has closed; and the
\* report is handled, and so the wait and the next attempt begun, only when
\* both have closed.
C28_OneProcessAtATime ==
  [][/\ ~(Live(child') /\ Live(extractChild'))
     /\ executed' # executed => ~Live(child) /\ ~Live(extractChild)
     /\ Live(extractChild') /\ ~Live(extractChild) => child.state = "closed"
     /\ pc' \in {"waiting", "finished"} /\ pc \in {"resolved", "extracted"}
          => child.state = "closed" /\ ~Live(extractChild)]_vars

\* the copy of the second attempt runs: the test process has closed
C28_Witness ==
  /\ attempt = 2
  /\ pc = "extract"
  /\ extractChild.state = "running"
  /\ child.state = "closed"
  /\ executed = 2

\* C29: for an empty failed-test list buildFilterPattern returns the empty
\* selector whatever the dependency map holds, and the retried count derived
\* from that selector is 0.
C29_EmptyListEmptySelector ==
  /\ call.op = "buildFilterPattern" /\ call.arg = <<>> => call.result = <<>>
  /\ call.op = "testsToRun" /\ call.arg = <<>> =>
       call.result = [filterPattern |-> <<>>, testsToRun |-> 0]

\* the retried count of an empty list was derived under a map with entries
C29_Witness ==
  /\ call.op = "testsToRun"
  /\ call.arg = <<>>
  /\ Len(dependencyMap) = Cardinality(Tests)
  /\ call.result.testsToRun = 0

(***************************************************************************)
(* extractFileFromContainer: a path is the sequence of its segments, a     *)
(* segment and a rendered path the sequence of the pieces of its text.     *)
(***************************************************************************)
\* segments a container path can hold: "..", plain names, the name of the
\* temp base directory, and names that start with it or nearly do
PathSegments ==
  {<<"..">>, <<"app">>, <<"Test.php">>, <<"phpunit-retry-tests">>,
   <<"phpunit-retry-tests", "-evil">>, <<"phpunit-retry-wrong">>}

\* the containerPath argument: with or without leading '/'
ContainerPaths ==
  [leadingSlash : BOOLEAN,
   segments : UNION {[1..n -> PathSegments] : n \in 1..MaxSegments}]

\* path.join(os.tmpdir(), 'phpunit-retry-tests')
tmpBaseDir ==
  <<<<"tmp">>, <<"phpunit-retry-tests">>>>

\* path normalisation of an absolute path: ".." drops the segment before
\* it, and is dropped itself at the root
RECURSIVE normalize(_, _)
normalize(segments, done) ==
  IF segments = <<>> THEN done
  ELSE IF Head(segments) = <<"..">>
       THEN normalize(Tail(segments),
                      IF done = <<>> THEN done
                      ELSE SubSeq(done, 1, Len(done) - 1))
       ELSE normalize(Tail(segments), Append(done, Head(segments)))

\* path.join(tmpBaseDir, relativePath): the leading '/' of containerPath is
\* cut off before, so both kinds of path join alike
pathJoin(base, containerPath) ==
  normalize(base \o containerPath.segments, <<>>)

\* the text of an absolute path
RECURSIVE renderFrom(_)
renderFrom(segments) ==
  IF segments = <<>> THEN <<>>
  ELSE <<"/">> \o Head(segments) \o renderFrom(Tail(segments))

render(segments) ==
  IF segments = <<>> THEN <<"/">> ELSE renderFrom(segments)

\* resolvedPath.startsWith(resolvedBaseDir)
startsWith(text, prefix) ==
  Len(prefix) <= Len(text) /\ SubSeq(text, 1, Len(prefix)) = prefix

\* extractFileFromContainer(containerPath, ...): the local path computed,
\* whether the copy was run with it as destination, and whether it was
\* returned (else null); `copied` is the outcome of the copy
extractFileFromContainer(containerPath, copied) ==
  LET localPath == pathJoin(tmpBaseDir, containerPath)
  IN IF ~startsWith(render(localPath), render(tmpBaseDir))
     THEN [localPath |-> localPath, copy |-> FALSE, returned |-> FALSE]
     ELSE [localPath |-> localPath, copy |-> TRUE, returned |-> copied]

CallExtractFileFromContainer ==
  /\ call.op = "none"
  /\ \E containerPath \in ContainerPaths :
     \E copied \in BOOLEAN :
       call' = [op |-> "extractFileFromContainer", arg |-> containerPath,
                threw |-> FALSE,
                result |-> extractFileFromContainer(containerPath, copied)]
  /\ UNCHANGED <<dependencyMap, rvars, inputs, sourceFiles, localFs,
                 containerFs, pc, runvars, child, extractChild, outputs, error,
                 histvars, ingestLog, trace>>

HelpersSpec ==
  ParserInit /\ [][CallExtractFileFromContainer]_vars

\* the path lies in the temp base directory: its first segments are those
\* of the base
WithinBase(path) ==
  Len(path) >= Len(tmpBaseDir) /\ SubSeq(path, 1, Len(tmpBaseDir)) = tmpBaseDir

\* C30: extractFileFromContainer neither copies to nor returns a local path
\* outside its temp base directory, whatever the container path.
C30_StaysWithinBase ==
  call.op = "extractFileFromContainer" =>
    (call.result.copy \/ call.result.returned
       => WithinBase(call.result.localPath))

\* C31: when a run has finished, the attempt statistics hold one record per
\* executed attempt, numbered 1..n in order, an attempt that ended for want
\* of a report included.
C31_OneStatPerAttempt ==
  pc = "finished" =>
    /\ Len(attemptStats) = executed
    /\ \A i \in 1..Len(attemptStats) : attemptStats[i].attempt = i

\* C32: for a containerized command whose last token is a value-taking flag
\* with nothing behind it, extractContainerName invents no container name,
\* and addEnvVar does not put its -e behind that flag as the flag's value.
C32_NoOverrun ==
  /\ call.op = "extractContainerName" /\ call.arg \in TruncatedCommands
       => call.result = ""
  /\ call.op = "addEnvVar" /\ call.arg.built \in TruncatedCommands
       => LET n == Len(call.arg.built.command)
          IN ~(/\ Len(call.result) > n
               /\ call.result[n].text \in flagsWithArgs
               /\ call.result[n + 1].text = "-e")

\* C38: for every containerized command, extractContainerName gives the
\* same container for the command addEnvVar returns as for the command itself.
C38_SameContainer ==
  call.op = "addEnvVar" /\ isDockerCommand(call.arg.built.command)
    => extractContainerName(call.result)
         = extractContainerName(call.arg.built.command)

\* C39: whenever addJUnitLogging leaves the caller's command as it is,
\* extractJUnitPath returns the path of the report flag the command carries;
\* and whenever extractJUnitPath returns null (""), addJUnitLogging appends
\* a report flag.
C39_DetectionsAgree ==
  call.op = "addJUnitLogging" =>
    LET c == call.arg.built.command \o call.arg.report
    IN /\ call.result.command = c
            => call.arg.report # <<>> /\ call.result.path = "own.xml"
       /\ call.result.path = ""
            => /\ Len(call.result.command) = Len(c) + 2
               /\ call.result.command[Len(c) + 1].text = "--log-junit"

\* C40: a run aborted by a timeout or a spawn error, in whichever attempt,
\* prints no summary and emits none of the outputs total_attempts,
\* exit_code, failed_tests and success.
C40_AbortEmitsNothing ==
  pc = "aborted" =>
    /\ error \in {"timeout", "spawn"}
    /\ ~outputs.summary
    /\ ~outputs.set
    /\ outputs = NoOutputs

\* the second attempt, started after a wait, was aborted by the timeout
C40_Witness ==
  /\ pc = "aborted"
  /\ error = "timeout"
  /\ executed = 2
  /\ waits = 1
  /\ attemptStats # <<>>

====
